---- MODULE Spec2Model ----
(***************************************************************************)
(* The error-pattern analysis scripts (error_pattern_analysis.py, rq4.py)  *)
(* as a state machine: the human table is loaded, every CSV of the         *)
(* results folder is merged with it and analysed, and the two output       *)
(* files are written after the loop.  compare_results.py has the same      *)
(* shape (one metrics dict per file, one output file);                     *)
(* evaluate_reliability.py compares the two raters' tables in one pass.    *)
(***************************************************************************)
EXTENDS Integers, Sequences, FiniteSets, TLC

VARIABLES
    pc,             \* position of the script: "load", "loop", "done", "crashed"
    err,            \* the uncaught exception that ended the script, or "none"
    human_csv,      \* HUMAN_FILE as it is on disk
    gpt_csvs,       \* the files glob finds in GPT_FOLDER, in glob order
    human,          \* the loaded human table
    dims,           \* the rubric dimensions taken from the human table
    idx,            \* 1-based position of the batch loop in gpt_csvs
    all_summaries,  \* one summary dict per analysed file
    all_detailed,   \* one detailed frame (a sequence of records) per analysed file
    out_summary,    \* OUTPUT_SUMMARY on disk
    out_detailed,   \* OUTPUT_DETAILED on disk
    results,        \* compare_results.py: one metrics dict per evaluated file
    dim_lists,      \* compare_results.py: the per-dimension lists of each call
    out_results,    \* gpt_vs_human_summary_v2.csv on disk
    r1_csv,         \* evaluate_reliability.py: main_grader.csv on disk
    r2_csv,         \* evaluate_reliability.py: side_grader.csv on disk
    r1,             \* the first rater's table, loaded and cleaned
    r2,             \* the second rater's table, loaded and cleaned
    metric_rows,    \* rows: one metrics dict per dimension with a valid pair
    summary,        \* the summary dict, once computed (at most one element)
    out_metrics,    \* reliability_metrics_per_dimension_v2.csv on disk
    out_reliability,\* reliability_summary_v2.csv on disk
    scores_df_long, \* the argument of a call of krippendorff_alpha_ordinal
    alpha,          \* the value that call returned
    text,           \* flow.py: the text a function of flow.py is called with
    extracted,      \* what extract_json_from_model_output returned or raised
    sections,       \* the dict parse_sections_by_number returned
    max_retries,    \* call_model: the most attempts it may make
    backoff,        \* call_model: the seconds slept after the first failure
    attempt,        \* call_model: the attempts made so far
    sleeps,         \* call_model: the durations it slept, in order
    responses,      \* call_model: what the API answered to each attempt
    reply,          \* call_model: what it returned or raised
    api,            \* the answers the API gives to each request of a run
    calls,          \* the requests call_model was called with, in order
    log,            \* the warnings and errors logged, in order
    all_evals,      \* evaluate_sections: the list it builds and returns
    chapter_pos,    \* evaluate_sections: 1-based position of its loop in chapter_order
    input_folder,   \* process_all_pdfs: the entries of the folder, as iterdir lists them
    dry_run,        \* process_all_pdfs: the --dry-run flag
    mode,           \* process_all_pdfs: "full" or "sections"
    pdf_files,      \* process_all_pdfs: the sorted PDF paths
    pdf_idx,        \* process_all_pdfs: 1-based position of the loop in pdf_files
    markdowns,      \* process_all_pdfs: what parse_pdf_to_markdown returned, in order
    all_rows,       \* process_all_pdfs: the rows collected so far
    out_csv         \* OUTPUT_CSV on disk: the frames written to it, in order

epa_vars == <<all_summaries, all_detailed, out_summary, out_detailed>>

cmp_vars == <<results, dim_lists, out_results>>

rel_vars == <<r1_csv, r2_csv, r1, r2, metric_rows, summary, out_metrics, out_reliability>>

alpha_vars == <<scores_df_long, alpha>>

text_vars == <<text, extracted, sections>>

call_vars == <<max_retries, backoff, attempt, sleeps, responses, reply>>

eval_vars == <<api, calls, log, all_evals, chapter_pos>>

pdf_vars == <<input_folder, dry_run, mode, pdf_files, pdf_idx, markdowns, all_rows, out_csv>>

flow_vars == <<text_vars, call_vars, eval_vars, pdf_vars>>

vars == <<pc, err, human_csv, gpt_csvs, human, dims, idx,
          all_summaries, all_detailed, out_summary, out_detailed,
          results, dim_lists, out_results,
          r1_csv, r2_csv, r1, r2, metric_rows, summary, out_metrics,
          out_reliability,
          scores_df_long, alpha,
          text, extracted, sections,
          max_retries, backoff, attempt, sleeps, responses, reply,
          api, calls, log, all_evals, chapter_pos,
          input_folder, dry_run, mode, pdf_files, pdf_idx, markdowns, all_rows,
          out_csv>>

-----------------------------------------------------------------------------
(* Bounds and program constants *)

MaxFiles == 3       \* files in the results folder of a batch run
MaxScore == 3       \* largest score an automated source may emit
RubricMax == 2      \* the rubric's top score ("0, 1 ili 2")
MaxChunks == 3      \* pieces a text handed to a function of flow.py is made of
MaxRetries == 3     \* largest max_retries call_model is called with
MaxPdfs == 2        \* entries iterdir lists in the input folder

ID_COL == "paper_name"
HUMAN_SUFFIX == "_human"
LLM_SUFFIX == "_llm"

UnnamedCols == {"Unnamed: 0"}

-----------------------------------------------------------------------------
(* Values *)

\* a missing cell (pandas NaN in a score column) is <<>>, a score v is <<v>>
Missing == <<>>
Val(v) == <<v>>
isna(c) == c = Missing

\* a float result: NaN is <<>>, the rational n/d in lowest terms is <<n, d>>
NaN == <<>>

Abs(x) == IF x < 0 THEN -x ELSE x

RECURSIVE GCD(_, _)
GCD(a, b) == IF b = 0 THEN a ELSE GCD(b, a % b)

Rat(n, d) ==
    LET g == GCD(Abs(n), d)
    IN  <<n \div g, d \div g>>

Range(s) == {s[i] : i \in 1..Len(s)}

RECURSIVE SumSeq(_)
SumSeq(s) == IF s = <<>> THEN 0 ELSE Head(s) + SumSeq(Tail(s))

RECURSIVE Flatten(_)
Flatten(ss) == IF ss = <<>> THEN <<>> ELSE Head(ss) \o Flatten(Tail(ss))

\* the array with every element computed once
RECURSIVE ListN(_, _)
ListN(f, n) == IF n = 0 THEN <<>> ELSE Append(ListN(f, n - 1), f[n])

List(f) == ListN(f, Len(f))

\* the number of True entries of a boolean array
CountTrue(mask) == Cardinality({i \in 1..Len(mask) : mask[i]})

\* float arithmetic on the rationals; NaN propagates
RatAdd(a, b) ==
    IF a = NaN \/ b = NaN THEN NaN ELSE Rat(a[1] * b[2] + b[1] * a[2], a[2] * b[2])

RatSub(a, b) ==
    IF a = NaN \/ b = NaN THEN NaN ELSE Rat(a[1] * b[2] - b[1] * a[2], a[2] * b[2])

RatMul(a, b) ==
    IF a = NaN \/ b = NaN THEN NaN ELSE Rat(a[1] * b[1], a[2] * b[2])

\* numpy division: 0/0 is NaN.  A non-zero value is never divided by zero in
\* the code modelled here (that would be inf)
RatDiv(a, b) ==
    IF a = NaN \/ b = NaN THEN NaN
    ELSE IF b[1] = 0 THEN NaN
    ELSE IF b[1] > 0 THEN Rat(a[1] * b[2], a[2] * b[1])
    ELSE Rat(0 - a[1] * b[2], 0 - a[2] * b[1])

RatLeq(a, b) == a[1] * b[2] <= b[1] * a[2]

RECURSIVE RatSum(_)
RatSum(s) == IF s = <<>> THEN <<0, 1>> ELSE RatAdd(Head(s), RatSum(Tail(s)))

\* np.mean of a list of floats; the mean of an empty list is NaN
RatMean(s) == IF s = <<>> THEN NaN ELSE RatDiv(RatSum(s), <<Len(s), 1>>)

\* the list in ascending order
RECURSIVE RatSort(_)
RatSort(s) ==
    IF s = <<>> THEN <<>>
    ELSE LET m == CHOOSE i \in 1..Len(s) : \A j \in 1..Len(s) : RatLeq(s[i], s[j])
             rest == [j \in 1..(Len(s) - 1) |-> IF j < m THEN s[j] ELSE s[j + 1]]
         IN  <<s[m]>> \o RatSort(rest)

\* np.median: the middle element, or the mean of the two middle ones; NaN
\* for an empty list and for a list that holds a NaN
RatMedian(s) ==
    IF s = <<>> \/ \E i \in 1..Len(s) : s[i] = NaN THEN NaN
    ELSE LET t == RatSort(s)
             n == Len(s)
         IN  IF n % 2 = 1 THEN t[(n + 1) \div 2]
             ELSE RatDiv(RatAdd(t[n \div 2], t[n \div 2 + 1]), <<2, 1>>)

\* the elements of a finite set of integers in ascending order
RECURSIVE SortInts(_)
SortInts(S) ==
    IF S = {} THEN <<>>
    ELSE LET m == CHOOSE x \in S : \A y \in S : x <= y
         IN  <<m>> \o SortInts(S \ {m})

-----------------------------------------------------------------------------
(* CSV files and tables *)

\* A CSV file: ok = FALSE is a file pd.read_csv cannot read.  Otherwise the
\* header is <<idname>> \o cols, and each row holds the identifier (in the column
\* named idname) and one cell per column of cols.  Identifiers are unique
\* within a table.
Unreadable == [ok |-> FALSE, idname |-> "", cols |-> <<>>, rows |-> <<>>]

Table(idname, cols, rows) ==
    [ok |-> TRUE, idname |-> idname, cols |-> cols, rows |-> rows]

Columns(t) == <<t.idname>> \o t.cols

\* pd.read_csv followed by .loc[:, ~columns.str.contains("^Unnamed")]
StripUnnamed(t) ==
    LET keep == SelectSeq(t.cols, LAMBDA c : c \notin UnnamedCols)
    IN  [t EXCEPT !.cols = keep,
                  !.rows = [i \in 1..Len(t.rows) |->
                              [id   |-> t.rows[i].id,
                               cell |-> [c \in Range(keep) |-> t.rows[i].cell[c]]]]]

\* dims = [c for c in human.columns if c != ID_COL]
DimsOf(t) == SelectSeq(Columns(t), LAMBDA c : c # ID_COL)

-----------------------------------------------------------------------------
(* human.merge(gpt, on=ID_COL, suffixes=(sl, sr)): inner join *)

MergeRaises(l, r) == l.idname # ID_COL \/ r.idname # ID_COL

Overlap(l, r) == Range(l.cols) \cap Range(r.cols)

LeftName(l, r, sl, c) == IF c \in Overlap(l, r) THEN c \o sl ELSE c
RightName(l, r, sr, c) == IF c \in Overlap(l, r) THEN c \o sr ELSE c

\* how="left": the left rows without a match are kept, their right-hand
\* cells missing
MergeLeft(l, r, sl, sr) ==
    LET lnames == [k \in 1..Len(l.cols) |-> LeftName(l, r, sl, l.cols[k])]
        rnames == [k \in 1..Len(r.cols) |-> RightName(l, r, sr, r.cols[k])]
        names  == Range(lnames) \cup Range(rnames)
        matched(x) == \E j \in 1..Len(r.rows) : r.rows[j].id = x.id
        match(x) == r.rows[CHOOSE j \in 1..Len(r.rows) : r.rows[j].id = x.id]
        joined(x) ==
            [id   |-> x.id,
             cell |-> [n \in names |->
                        IF \E k \in 1..Len(lnames) : lnames[k] = n
                        THEN x.cell[l.cols[CHOOSE k \in 1..Len(lnames) : lnames[k] = n]]
                        ELSE IF ~matched(x) THEN Missing
                        ELSE match(x).cell[
                               r.cols[CHOOSE k \in 1..Len(rnames) : rnames[k] = n]]]]
    IN  [cols |-> lnames \o rnames,
         rows |-> List([i \in 1..Len(l.rows) |-> joined(l.rows[i])])]

Merge(l, r, sl, sr) ==
    LET lnames == [k \in 1..Len(l.cols) |-> LeftName(l, r, sl, l.cols[k])]
        rnames == [k \in 1..Len(r.cols) |-> RightName(l, r, sr, r.cols[k])]
        names  == Range(lnames) \cup Range(rnames)
        lrows  == SelectSeq(l.rows,
                      LAMBDA x : \E j \in 1..Len(r.rows) : r.rows[j].id = x.id)
        match(x) == r.rows[CHOOSE j \in 1..Len(r.rows) : r.rows[j].id = x.id]
        joined(x) ==
            [id   |-> x.id,
             cell |-> [n \in names |->
                        IF \E k \in 1..Len(lnames) : lnames[k] = n
                        THEN x.cell[l.cols[CHOOSE k \in 1..Len(lnames) : lnames[k] = n]]
                        ELSE match(x).cell[
                               r.cols[CHOOSE k \in 1..Len(rnames) : rnames[k] = n]]]]
    IN  [cols |-> lnames \o rnames,
         rows |-> List([i \in 1..Len(lrows) |-> joined(lrows[i])])]

-----------------------------------------------------------------------------
(* analyze_llm_file *)

\* the subtraction the other way round: h[mask] - g[mask]
ColDeltasSwapped(df, ch, cg) ==
    LET valid == SelectSeq(df.rows,
                     LAMBDA x : ~(isna(x.cell[ch]) \/ isna(x.cell[cg])))
    IN  [k \in 1..Len(valid) |-> valid[k].cell[ch][1] - valid[k].cell[cg][1]]

\* missing values dropped row-wise, as df.dropna() before the loop would
ColDeltasRowwise(df, ch, cg) ==
    LET valid == SelectSeq(df.rows,
                     LAMBDA x : \A n \in DOMAIN x.cell : ~isna(x.cell[n]))
    IN  [k \in 1..Len(valid) |-> valid[k].cell[cg][1] - valid[k].cell[ch][1]]

\* mask = ~(h.isna() | g.isna()); (g[mask] - h[mask]).tolist()
ColDeltas(df, ch, cg) ==
    LET valid == SelectSeq(df.rows,
                     LAMBDA x : ~(isna(x.cell[ch]) \/ isna(x.cell[cg])))
    IN  [k \in 1..Len(valid) |-> valid[k].cell[cg][1] - valid[k].cell[ch][1]]

\* the list overwritten instead of extended: the last dimension's deltas only
DeltasLastDim(df, ds, sl, sr) ==
    IF ds = <<>> THEN <<>>
    ELSE ColDeltas(df, ds[Len(ds)] \o sl, ds[Len(ds)] \o sr)

\* the loop "for d in dims" with deltas.extend(...)
Deltas(df, ds, sl, sr) ==
    Flatten([k \in 1..Len(ds) |-> ColDeltas(df, ds[k] \o sl, ds[k] \o sr)])

\* the fraction left unscaled: np.mean(<boolean array>)
PctUnscaled(mask) ==
    IF Len(mask) = 0 THEN NaN ELSE Rat(CountTrue(mask), Len(mask))

\* np.mean(<boolean array>) * 100; the mean of an empty array is NaN
Pct(mask) ==
    IF Len(mask) = 0 THEN NaN ELSE Rat(100 * CountTrue(mask), Len(mask))

\* np.mean(deltas)
Mean(deltas) ==
    IF Len(deltas) = 0 THEN NaN ELSE Rat(SumSeq(deltas), Len(deltas))

\* the summary dict, lines 49-58; severe_% tests np.abs(deltas) == 2
Summary(file, deltas) ==
    LET n == Len(deltas)
    IN  [file              |-> file,
         n_comparisons     |-> n,
         exact_pct         |-> Pct([i \in 1..n |-> deltas[i] = 0]),
         minor_pct         |-> Pct([i \in 1..n |-> Abs(deltas[i]) = 1]),
         severe_pct        |-> Pct([i \in 1..n |-> Abs(deltas[i]) = 2]),
         over_scoring_pct  |-> Pct([i \in 1..n |-> deltas[i] > 0]),
         under_scoring_pct |-> Pct([i \in 1..n |-> deltas[i] < 0]),
         mean_delta        |-> Mean(deltas)]

\* the minor bucket tested without np.abs
ErrorTypeNoAbs(x) == IF x = 0 THEN "exact" ELSE IF x = 1 THEN "minor" ELSE "severe"

ErrorType(x) == IF x = 0 THEN "exact" ELSE IF Abs(x) = 1 THEN "minor" ELSE "severe"

\* a zero delta counted as over-scoring
DirectionNoNone(x) == IF x >= 0 THEN "over" ELSE "under"

Direction(x) == IF x > 0 THEN "over" ELSE IF x < 0 THEN "under" ELSE "none"

Detailed(file, deltas) ==
    [k \in 1..Len(deltas) |->
        [file       |-> file,
         delta      |-> deltas[k],
         error_type |-> ErrorType(deltas[k]),
         direction  |-> Direction(deltas[k])]]

\* The exception analyze_llm_file raises on this file, or "none".
AnalyzeRaises(h, ds, file) ==
    IF ~file.ok THEN "ParserError"
    ELSE LET gpt == StripUnnamed(file)
         IN  IF MergeRaises(h, gpt) THEN "KeyError"
             ELSE LET df == Merge(h, gpt, HUMAN_SUFFIX, LLM_SUFFIX)
                  IN  IF \E k \in 1..Len(ds) :
                            \/ ds[k] \o HUMAN_SUFFIX \notin Range(df.cols)
                            \/ ds[k] \o LLM_SUFFIX \notin Range(df.cols)
                      THEN "KeyError"
                      ELSE "none"

\* The deltas analyze_llm_file computes when it does not raise.
FileDeltas(h, ds, file) ==
    Deltas(Merge(h, StripUnnamed(file), HUMAN_SUFFIX, LLM_SUFFIX),
           ds, HUMAN_SUFFIX, LLM_SUFFIX)

\* the deltas kept in a list that outlives the call: every call sees the
\* deltas of the files analysed before it
analyze_llm_file_accumulating(h, ds, name, file) ==
    LET earlier == Flatten([k \in 1..Len(all_detailed) |->
                       [i \in 1..Len(all_detailed[k]) |-> all_detailed[k][i].delta]])
        deltas == earlier \o FileDeltas(h, ds, file)
    IN  [summary |-> Summary(name, deltas), detailed |-> Detailed(name, deltas)]

analyze_llm_file(h, ds, name, file) ==
    LET deltas == FileDeltas(h, ds, file)
    IN  [summary |-> Summary(name, deltas), detailed |-> Detailed(name, deltas)]

-----------------------------------------------------------------------------
(* Output files *)

NotWritten == [written |-> FALSE, header |-> <<>>, rows |-> <<>>]

SummaryHeader ==
    <<"file", "n_comparisons", "exact_%", "minor_%", "severe_%",
      "over_scoring_%", "under_scoring_%", "mean_delta">>

DetailedHeader == <<"file", "delta", "error_type", "direction">>

\* pd.DataFrame(list of dicts).to_csv: the columns are the dicts' keys, so an
\* empty list gives a file without column names
SummaryCsv(summaries) ==
    [written |-> TRUE,
     header  |-> IF summaries = <<>> THEN <<>> ELSE SummaryHeader,
     rows    |-> summaries]

\* pd.concat(frames, ignore_index=True).to_csv
DetailedCsv(frames) ==
    [written |-> TRUE, header |-> DetailedHeader, rows |-> Flatten(frames)]

-----------------------------------------------------------------------------
(* The script *)

\* lines 19-22: an unreadable HUMAN_FILE ends the script
LoadHuman ==
    /\ pc = "load"
    /\ IF ~human_csv.ok
       THEN /\ pc' = "crashed"
            /\ err' = "ParserError"
            /\ UNCHANGED <<human, dims>>
       ELSE /\ human' = StripUnnamed(human_csv)
            /\ dims' = DimsOf(StripUnnamed(human_csv))
            /\ pc' = "loop"
            /\ UNCHANGED err
    /\ UNCHANGED <<human_csv, gpt_csvs, idx, all_summaries, all_detailed,
                   out_summary, out_detailed>>
    /\ UNCHANGED <<cmp_vars, rel_vars, alpha_vars, flow_vars>>

\* lines 82-86: one iteration of the batch loop; an exception raised by
\* analyze_llm_file is not caught and ends the script
AnalyzeFile ==
    /\ pc = "loop"
    /\ idx <= Len(gpt_csvs)
    /\ LET raised == AnalyzeRaises(human, dims, gpt_csvs[idx])
       IN  IF raised # "none"
           THEN /\ pc' = "crashed"
                /\ err' = raised
                /\ UNCHANGED <<idx, all_summaries, all_detailed>>
           ELSE LET res == analyze_llm_file(human, dims, idx, gpt_csvs[idx])
                IN  /\ all_summaries' = Append(all_summaries, res.summary)
                    /\ all_detailed' = Append(all_detailed, res.detailed)
                    /\ idx' = idx + 1
                    /\ UNCHANGED <<pc, err>>
    /\ UNCHANGED <<human_csv, gpt_csvs, human, dims, out_summary, out_detailed>>
    /\ UNCHANGED <<cmp_vars, rel_vars, alpha_vars, flow_vars>>

\* the files written inside the loop, after every analysed file
WriteOutputsInLoop ==
    /\ pc = "loop"
    /\ \/ idx > Len(gpt_csvs) /\ pc' = "done"
       \/ idx <= Len(gpt_csvs) /\ idx > 1 /\ ~out_summary.written /\ pc' = pc
    /\ all_detailed # <<>>
    /\ out_summary' = SummaryCsv(all_summaries)
    /\ out_detailed' = DetailedCsv(all_detailed)
    /\ UNCHANGED <<err, human_csv, gpt_csvs, human, dims, idx, all_summaries, all_detailed>>
    /\ UNCHANGED <<cmp_vars, rel_vars, alpha_vars, flow_vars>>

\* lines 88-92: pd.concat of an empty list raises ValueError before either
\* file is written
WriteOutputs ==
    /\ pc = "loop"
    /\ idx > Len(gpt_csvs)
    /\ IF all_detailed = <<>>
       THEN /\ pc' = "crashed"
            /\ err' = "ValueError"
            /\ UNCHANGED <<out_summary, out_detailed>>
       ELSE /\ out_summary' = SummaryCsv(all_summaries)
            /\ out_detailed' = DetailedCsv(all_detailed)
            /\ pc' = "done"
            /\ UNCHANGED err
    /\ UNCHANGED <<human_csv, gpt_csvs, human, dims, idx, all_summaries, all_detailed>>
    /\ UNCHANGED <<cmp_vars, rel_vars, alpha_vars, flow_vars>>

Next == LoadHuman \/ AnalyzeFile \/ WriteOutputs

-----------------------------------------------------------------------------
(* compare_results.py: evaluate_one_gpt_file *)

GPT_SUFFIX == "_gpt"

\* sklearn.metrics.cohen_kappa_score(y1, y2, weights="quadratic") on two
\* arrays of the same positive length.  The labels are the sorted values
\* seen in either array, the weights are (i - j)^2 over the label positions,
\* expected = outer(sum0, sum1) / n, and the result is
\* 1 - sum(w * confusion) / sum(w * expected), so 0/0 (one label) is NaN.
unique_labels(y1, y2) == SortInts(Range(y1) \cup Range(y2))

confusion_matrix(y1, y2, labels) ==
    List([i \in 1..Len(labels) |-> List([j \in 1..Len(labels) |->
        Cardinality({k \in 1..Len(y1) : y1[k] = labels[i] /\ y2[k] = labels[j]})])])

QuadraticWeight(labels, i, j) == (i - j) * (i - j)

\* the expected matrix left out: 1 - sum(w * confusion) / n
cohen_kappa_score_observed_only(y1, y2) ==
    LET labels == unique_labels(y1, y2)
        L == 1..Len(labels)
        confusion == confusion_matrix(y1, y2, labels)
        num == SumSeq([i \in L |-> SumSeq([j \in L |->
                   QuadraticWeight(labels, i, j) * confusion[i][j]])])
    IN  RatSub(<<1, 1>>, Rat(num, Len(y1)))

\* the expected matrix built from the first array's marginals alone
cohen_kappa_score_one_marginal(y1, y2) ==
    LET labels == unique_labels(y1, y2)
        L == 1..Len(labels)
        confusion == confusion_matrix(y1, y2, labels)
        sum1 == List([i \in L |-> SumSeq([j \in L |-> confusion[i][j]])])
        num == SumSeq([i \in L |-> SumSeq([j \in L |->
                   QuadraticWeight(labels, i, j) * confusion[i][j]])])
        den == SumSeq([i \in L |-> SumSeq([j \in L |->
                   QuadraticWeight(labels, i, j) * sum1[i] * sum1[j]])])
    IN  RatSub(<<1, 1>>, RatDiv(<<num, 1>>, Rat(den, Len(y1))))

cohen_kappa_score(y1, y2) ==
    LET labels == unique_labels(y1, y2)
        L == 1..Len(labels)
        confusion == confusion_matrix(y1, y2, labels)
        sum0 == List([j \in L |-> SumSeq([i \in L |-> confusion[i][j]])])
        sum1 == List([i \in L |-> SumSeq([j \in L |-> confusion[i][j]])])
        n == SumSeq(sum0)
        num == SumSeq([i \in L |-> SumSeq([j \in L |->
                   QuadraticWeight(labels, i, j) * confusion[i][j]])])
        den == SumSeq([i \in L |-> SumSeq([j \in L |->
                   QuadraticWeight(labels, i, j) * sum0[i] * sum1[j]])])
        k == RatDiv(<<num, 1>>, Rat(den, n))
    IN  RatSub(<<1, 1>>, k)

\* sklearn.metrics.mean_absolute_error on two arrays of the same positive length
mean_absolute_error(y1, y2) ==
    Rat(SumSeq([k \in 1..Len(y1) |-> Abs(y1[k] - y2[k])]), Len(y1))

\* the rows of the join in which neither column is missing (lines 56-57)
ValidRows(df, ch, cg) ==
    SelectSeq(df.rows, LAMBDA x : ~(isna(x.cell[ch]) \/ isna(x.cell[cg])))

ColValues(rows, c) == List([k \in 1..Len(rows) |-> rows[k].cell[c][1]])

\* one pass of the loop "for d in dims" (lines 46-83): skipped when a column
\* is absent from the join or no row is valid in both columns
DimMetrics(df, d, sl, sr) ==
    IF d \o sl \notin Range(df.cols) \/ d \o sr \notin Range(df.cols)
    THEN [skipped |-> TRUE, kappa |-> NaN, exact |-> NaN, adjacent |-> NaN, mae |-> NaN]
    ELSE LET rows == ValidRows(df, d \o sl, d \o sr)
             h == ColValues(rows, d \o sl)
             g == ColValues(rows, d \o sr)
         IN  IF Len(h) = 0
             THEN [skipped |-> TRUE, kappa |-> NaN, exact |-> NaN,
                   adjacent |-> NaN, mae |-> NaN]
             ELSE [skipped  |-> FALSE,
                   kappa    |-> cohen_kappa_score(h, g),
                   exact    |-> Pct([k \in 1..Len(h) |-> h[k] = g[k]]),
                   adjacent |-> Pct([k \in 1..Len(h) |-> Abs(h[k] - g[k]) <= 1]),
                   mae      |-> mean_absolute_error(h, g)]

\* a NaN kappa is appended to kappa_list as any other value
KappaListWithNaN(ms) ==
    LET kept == SelectSeq(ms, LAMBDA m : ~m.skipped)
    IN  [k \in 1..Len(kept) |-> kept[k].kappa]

\* kappa_list: the kappa of the dimensions not skipped, unless it is NaN
KappaList(ms) ==
    LET kept == SelectSeq(ms, LAMBDA m : ~m.skipped /\ m.kappa # NaN)
    IN  [k \in 1..Len(kept) |-> kept[k].kappa]

\* a dimension whose kappa is NaN left out of the other lists as well
FieldListDefinedOnly(ms, field) ==
    LET kept == SelectSeq(ms, LAMBDA m : ~m.skipped /\ m.kappa # NaN)
    IN  [k \in 1..Len(kept) |-> kept[k][field]]

\* exact_list, adjacent_list and mae_dim_list: one entry per dimension not skipped
FieldList(ms, field) ==
    LET kept == SelectSeq(ms, LAMBDA m : ~m.skipped)
    IN  [k \in 1..Len(kept) |-> kept[k][field]]

\* a missing score imputed by the middle of the scale
RowTotalImputed(x, cols) ==
    SumSeq([k \in 1..Len(cols) |->
               IF isna(x.cell[cols[k]]) THEN 1 ELSE x.cell[cols[k]][1]])

\* df[cols].sum(axis=1): missing cells are skipped, so a row of missing
\* cells sums to 0
RowTotal(x, cols) ==
    SumSeq([k \in 1..Len(cols) |->
               IF isna(x.cell[cols[k]]) THEN 0 ELSE x.cell[cols[k]][1]])

Totals(df, ds, suffix) ==
    LET cols == [k \in 1..Len(ds) |-> ds[k] \o suffix]
    IN  List([i \in 1..Len(df.rows) |-> RowTotal(df.rows[i], cols)])

\* twice the average rank of x[i] in x (ties share the mean of their ranks)
Rank2(x, i) ==
    2 * Cardinality({j \in 1..Len(x) : x[j] < x[i]})
      + Cardinality({j \in 1..Len(x) : x[j] = x[i]}) + 1

Sign(x) == IF x > 0 THEN 1 ELSE IF x < 0 THEN 0 - 1 ELSE 0

\* scipy.stats.spearmanr(x, y): Pearson's r of the ranks, NaN for fewer than
\* two observations or a constant array.  rho = cov / sqrt(vx * vy) need not
\* be rational: the value is held as rho * |rho| = sign(cov) * cov^2 / (vx * vy)
spearmanr(x, y) ==
    LET n == Len(x)
        rx == List([i \in 1..n |-> Rank2(x, i)])
        ry == List([i \in 1..n |-> Rank2(y, i)])
        ax == List([i \in 1..n |-> n * rx[i] - SumSeq(rx)])
        ay == List([i \in 1..n |-> n * ry[i] - SumSeq(ry)])
        cov == SumSeq([i \in 1..n |-> ax[i] * ay[i]])
        vx == SumSeq([i \in 1..n |-> ax[i] * ax[i]])
        vy == SumSeq([i \in 1..n |-> ay[i] * ay[i]])
    IN  IF n <= 1 \/ vx = 0 \/ vy = 0 THEN NaN
        ELSE Rat(Sign(cov) * cov * cov, vx * vy)

\* the exception evaluate_one_gpt_file raises on this file, or "none": the
\* totals select every dimension's two columns (lines 88-89), and
\* mean_absolute_error rejects arrays without samples (line 92)
EvaluateRaises(h, ds, file) ==
    IF ~file.ok THEN "ParserError"
    ELSE LET gpt == StripUnnamed(file)
         IN  IF MergeRaises(h, gpt) THEN "KeyError"
             ELSE LET df == Merge(h, gpt, HUMAN_SUFFIX, GPT_SUFFIX)
                  IN  IF \E k \in 1..Len(ds) :
                            \/ ds[k] \o HUMAN_SUFFIX \notin Range(df.cols)
                            \/ ds[k] \o GPT_SUFFIX \notin Range(df.cols)
                      THEN "KeyError"
                      ELSE IF df.rows = <<>> THEN "ValueError"
                      ELSE "none"

\* the per-dimension lists of a call that does not raise
EvaluateLists(h, ds, file) ==
    LET df == Merge(h, StripUnnamed(file), HUMAN_SUFFIX, GPT_SUFFIX)
        ms == [k \in 1..Len(ds) |-> DimMetrics(df, ds[k], HUMAN_SUFFIX, GPT_SUFFIX)]
    IN  [kappa_list    |-> KappaList(ms),
         exact_list    |-> FieldList(ms, "exact"),
         adjacent_list |-> FieldList(ms, "adjacent"),
         mae_dim_list  |-> FieldList(ms, "mae")]

\* the dict returned at lines 99-109
evaluate_one_gpt_file(h, ds, gpt_path, file) ==
    LET df == Merge(h, StripUnnamed(file), HUMAN_SUFFIX, GPT_SUFFIX)
        ls == EvaluateLists(h, ds, file)
        total_human == Totals(df, ds, HUMAN_SUFFIX)
        total_gpt == Totals(df, ds, GPT_SUFFIX)
    IN  [file                   |-> gpt_path,
         kappa_mean             |-> RatMean(ls.kappa_list),
         kappa_median           |-> RatMedian(ls.kappa_list),
         exact_mean_pct         |-> RatMean(ls.exact_list),
         adjacent_mean_pct      |-> RatMean(ls.adjacent_list),
         mae_dim_mean           |-> RatMean(ls.mae_dim_list),
         rho_total              |-> spearmanr(total_human, total_gpt),
         mae_total              |-> mean_absolute_error(total_human, total_gpt),
         n_dimensions_evaluated |-> Len(ls.kappa_list)]

ResultsHeader ==
    <<"file", "kappa_mean", "kappa_median", "exact_mean_%", "adjacent_mean_%",
      "mae_dim_mean", "rho_total", "mae_total", "n_dimensions_evaluated">>

\* pd.DataFrame(results).to_csv(..., index=False)
ResultsCsv(rs) ==
    [written |-> TRUE,
     header  |-> IF rs = <<>> THEN <<>> ELSE ResultsHeader,
     rows    |-> rs]

\* lines 118-120: one iteration of the loop over results/*.csv; an
\* exception raised by evaluate_one_gpt_file is not caught
EvaluateFile ==
    /\ pc = "loop"
    /\ idx <= Len(gpt_csvs)
    /\ LET raised == EvaluateRaises(human, dims, gpt_csvs[idx])
       IN  IF raised # "none"
           THEN /\ pc' = "crashed"
                /\ err' = raised
                /\ UNCHANGED <<idx, results, dim_lists>>
           ELSE /\ results' = Append(results,
                                evaluate_one_gpt_file(human, dims, idx, gpt_csvs[idx]))
                /\ dim_lists' = Append(dim_lists,
                                  EvaluateLists(human, dims, gpt_csvs[idx]))
                /\ idx' = idx + 1
                /\ UNCHANGED <<pc, err>>
    /\ UNCHANGED <<human_csv, gpt_csvs, human, dims, out_results>>
    /\ UNCHANGED <<epa_vars, rel_vars, alpha_vars, flow_vars>>

\* lines 122-124: the summary table is written once after the loop
WriteResults ==
    /\ pc = "loop"
    /\ idx > Len(gpt_csvs)
    /\ out_results' = ResultsCsv(results)
    /\ pc' = "done"
    /\ UNCHANGED <<err, human_csv, gpt_csvs, human, dims, idx, results, dim_lists>>
    /\ UNCHANGED <<epa_vars, rel_vars, alpha_vars, flow_vars>>

NextCompare == LoadHuman \/ EvaluateFile \/ WriteResults

-----------------------------------------------------------------------------
(* evaluate_reliability.py: krippendorff_alpha_ordinal *)

\* scores_df_long is a sequence of rows [essay_id, rater_id, score], the score
\* a cell; a rater scores an essay at most once, so the pivot table's mean
\* is that score
LongRow(e, r, c) == [essay_id |-> e, rater_id |-> r, score |-> c]

\* line 15: the sorted distinct scores, missing ones dropped
Categories(long) ==
    SortInts({long[i].score[1] : i \in {k \in 1..Len(long) : ~isna(long[k].score)}})

\* lines 12-14 and 23: the non-missing scores of one essay, one per rater
EssayVals(long, e) ==
    LET given == SelectSeq(long, LAMBDA x : x.essay_id = e /\ ~isna(x.score))
    IN  List([k \in 1..Len(given) |-> given[k].score[1]])

EssayIds(long) ==
    {long[i].essay_id : i \in {k \in 1..Len(long) : ~isna(long[k].score)}}

\* the pairs i < j of one essay's values that fall into cell (a, b), entered
\* both ways round (lines 24-27)
PairCount(vals, a, b) ==
    Cardinality({ij \in (1..Len(vals)) \X (1..Len(vals)) :
                    /\ ij[1] < ij[2]
                    /\ vals[ij[1]] = a /\ vals[ij[2]] = b})
    + Cardinality({ij \in (1..Len(vals)) \X (1..Len(vals)) :
                    /\ ij[1] < ij[2]
                    /\ vals[ij[2]] = a /\ vals[ij[1]] = b})

RECURSIVE SumPairCounts(_, _, _, _)
SumPairCounts(long, E, a, b) ==
    IF E = {} THEN 0
    ELSE LET e == CHOOSE x \in E : TRUE
         IN  PairCount(EssayVals(long, e), a, b) + SumPairCounts(long, E \ {e}, a, b)

\* each pair entered once, as (vals[i], vals[j]) only
CoincidenceOneWay(long) ==
    LET cats == Categories(long)
        E == EssayIds(long)
        once(e, a, b) ==
            LET vals == EssayVals(long, e)
            IN  Cardinality({ij \in (1..Len(vals)) \X (1..Len(vals)) :
                                /\ ij[1] < ij[2]
                                /\ vals[ij[1]] = a /\ vals[ij[2]] = b})
    IN  List([a \in 1..Len(cats) |-> List([b \in 1..Len(cats) |->
            Cardinality({e \in E : once(e, cats[a], cats[b]) > 0})])])

\* lines 21-27: the coincidence matrix C; row a and column b stand for the
\* categories cats[a] and cats[b]
Coincidence(long) ==
    LET cats == Categories(long)
        E == EssayIds(long)
    IN  List([a \in 1..Len(cats) |-> List([b \in 1..Len(cats) |->
            SumPairCounts(long, E, cats[a], cats[b])])])

\* C.values.sum()
MatrixSum(C) ==
    SumSeq([a \in 1..Len(C) |-> SumSeq(C[a])])

\* the distance left unsquared
delta2_linear(i, j, K) == Rat(Abs(i - j), K - 1)

\* lines 32-33, for K >= 2
delta2(i, j, K) == Rat(Abs(i - j) * Abs(i - j), (K - 1) * (K - 1))

\* C.sum(axis=1)
Marginals(C) == List([a \in 1..Len(C) |-> SumSeq(C[a])])

\* line 35, for K >= 2 categories and a matrix C that is not all zero
ObservedDisagreement(C, cats) ==
    LET K == Len(cats)
    IN  RatDiv(RatSum([a \in 1..K |-> RatSum([b \in 1..K |->
                   RatMul(delta2(cats[a], cats[b], K), <<C[a][b], 1>>)])]),
               <<MatrixSum(C), 1>>)

\* lines 36-39
ExpectedDisagreement(C, cats) ==
    LET K == Len(cats)
        m == Marginals(C)
    IN  RatDiv(RatSum([a \in 1..K |-> RatSum([b \in 1..K |->
                   RatMul(delta2(cats[a], cats[b], K), <<m[a] * m[b], 1>>)])]),
               <<SumSeq(m) * SumSeq(m), 1>>)

\* the ratio returned without its complement
krippendorff_alpha_ratio(long) ==
    LET cats == Categories(long)
        C == Coincidence(long)
    IN  IF Len(cats) <= 1 THEN NaN
        ELSE IF MatrixSum(C) = 0 THEN NaN
        ELSE IF ExpectedDisagreement(C, cats) = <<0, 1>> THEN NaN
        ELSE RatDiv(ObservedDisagreement(C, cats), ExpectedDisagreement(C, cats))

krippendorff_alpha_ordinal(long) ==
    LET cats == Categories(long)
        C == Coincidence(long)
    IN  IF Len(cats) <= 1 THEN NaN
        ELSE IF MatrixSum(C) = 0 THEN NaN
        ELSE LET Do == ObservedDisagreement(C, cats)
                 De == ExpectedDisagreement(C, cats)
             IN  IF De = <<0, 1>> \/ De = NaN THEN NaN
                 ELSE RatSub(<<1, 1>>, RatDiv(Do, De))

\* a call of the function on its own
CallAlpha ==
    /\ pc = "call"
    /\ alpha' = krippendorff_alpha_ordinal(scores_df_long)
    /\ pc' = "returned"
    /\ UNCHANGED <<err, human_csv, gpt_csvs, human, dims, idx, scores_df_long>>
    /\ UNCHANGED <<epa_vars, cmp_vars, rel_vars, flow_vars>>

NextAlpha == CallAlpha

-----------------------------------------------------------------------------
(* evaluate_reliability.py: the script *)

RATER_ID_COL == "Rad"
R1_SUFFIX == "_r1"
R2_SUFFIX == "_r2"

\* the column names of the tables in ascending string order, for sorted()
ColumnOrder == <<"Rad", "Unnamed: 0", "clarity", "grammar", "paper_name", "style">>

Sorted(S) == SelectSeq(ColumnOrder, LAMBDA c : c \in S)

\* dropna(axis=1, how="all") on a table with at least one row: a score column
\* whose cells are all missing is dropped (identifiers are never missing)
DropEmptyColumns(t) ==
    LET keep == SelectSeq(t.cols,
                    LAMBDA c : \E i \in 1..Len(t.rows) : ~isna(t.rows[i].cell[c]))
    IN  [t EXCEPT !.cols = keep,
                  !.rows = [i \in 1..Len(t.rows) |->
                              [id   |-> t.rows[i].id,
                               cell |-> [c \in Range(keep) |-> t.rows[i].cell[c]]]]]

\* lines 48-55
LoadRater(file) == DropEmptyColumns(StripUnnamed(file))

\* line 61
CommonDims(a, b) ==
    Sorted((Range(Columns(a)) \cap Range(Columns(b))) \ {RATER_ID_COL})

\* lines 101-107: the valid essays twice, the first rater's scores and then
\* the second's
LongDf(valid, c1, c2) ==
    List([k \in 1..(2 * Len(valid)) |->
            IF k <= Len(valid)
            THEN LongRow(valid[k].id, "R1", valid[k].cell[c1])
            ELSE LongRow(valid[k - Len(valid)].id, "R2", valid[k - Len(valid)].cell[c2])])

\* a dimension without a valid pair recorded as a row of undefined metrics
DimRowKeepsEmpty(df, d) ==
    IF d \o R1_SUFFIX \notin Range(df.cols) \/ d \o R2_SUFFIX \notin Range(df.cols)
    THEN <<>>
    ELSE LET valid == ValidRows(df, d \o R1_SUFFIX, d \o R2_SUFFIX)
             s1c == ColValues(valid, d \o R1_SUFFIX)
             s2c == ColValues(valid, d \o R2_SUFFIX)
             diffs == List([k \in 1..Len(s1c) |-> Abs(s1c[k] - s2c[k])])
         IN  IF Len(s1c) = 0
             THEN <<[dimension |-> d, n_pairs |-> 0, kappa_w_quad |-> NaN,
                     alpha_ordinal |-> NaN, exact_pct |-> NaN, adjacent_pct |-> NaN]>>
             ELSE <<[dimension     |-> d,
                     n_pairs       |-> Len(s1c),
                     kappa_w_quad  |-> cohen_kappa_score(s1c, s2c),
                     alpha_ordinal |->
                         krippendorff_alpha_ordinal(
                             LongDf(valid, d \o R1_SUFFIX, d \o R2_SUFFIX)),
                     exact_pct     |-> Pct([k \in 1..Len(diffs) |-> diffs[k] = 0]),
                     adjacent_pct  |-> Pct([k \in 1..Len(diffs) |-> diffs[k] <= 1])]>>

\* lines 79-119: the dict appended for dimension d, or none when the
\* dimension is skipped
DimRow(df, d) ==
    IF d \o R1_SUFFIX \notin Range(df.cols) \/ d \o R2_SUFFIX \notin Range(df.cols)
    THEN <<>>
    ELSE LET valid == ValidRows(df, d \o R1_SUFFIX, d \o R2_SUFFIX)
             s1c == ColValues(valid, d \o R1_SUFFIX)
             s2c == ColValues(valid, d \o R2_SUFFIX)
             diffs == List([k \in 1..Len(s1c) |-> Abs(s1c[k] - s2c[k])])
         IN  IF Len(s1c) = 0 THEN <<>>
             ELSE <<[dimension     |-> d,
                     n_pairs       |-> Len(s1c),
                     kappa_w_quad  |-> cohen_kappa_score(s1c, s2c),
                     alpha_ordinal |->
                         krippendorff_alpha_ordinal(
                             LongDf(valid, d \o R1_SUFFIX, d \o R2_SUFFIX)),
                     exact_pct     |-> Pct([k \in 1..Len(diffs) |-> diffs[k] = 0]),
                     adjacent_pct  |-> Pct([k \in 1..Len(diffs) |-> diffs[k] <= 1])]>>

MetricRows(df, ds) == Flatten([k \in 1..Len(ds) |-> DimRow(df, ds[k])])

\* lines 126-127: the columns of the dimensions that the join holds
TotalsPresent(df, ds, suffix) ==
    LET cols == SelectSeq([k \in 1..Len(ds) |-> ds[k] \o suffix],
                          LAMBDA c : c \in Range(df.cols))
    IN  List([i \in 1..Len(df.rows) |-> RowTotal(df.rows[i], cols)])

\* the largest k in lo..hi with (2k - 1)^2 * d <= 4 * 10^6 * n, by bisection
RECURSIVE RoundSearch(_, _, _, _)
RoundSearch(n, d, lo, hi) ==
    IF lo = hi THEN lo
    ELSE LET mid == (lo + hi + 1) \div 2
         IN  IF (2 * mid - 1) * (2 * mid - 1) * d <= 4000000 * n
             THEN RoundSearch(n, d, mid, hi)
             ELSE RoundSearch(n, d, lo, mid - 1)

\* round(rho, 3) of the rho that spearmanr returns: q holds rho * |rho|, so
\* |rho| = sqrt(|q|) is rounded to the nearest thousandth
Round3(q) ==
    IF q = NaN THEN NaN
    ELSE IF q[1] = 0 THEN <<0, 1>>
    ELSE Rat(Sign(q[1]) * RoundSearch(Abs(q[1]), q[2], 0, 1000), 1000)

\* round(p, 6): the p-value is a function of rho and the number of essays
\* that is not evaluated here; it is held as that pair
PValue(q, n) == IF q = NaN THEN NaN ELSE <<"p", q, n>>

\* lines 126-135
ReliabilitySummary(df, ds) ==
    LET total_r1 == TotalsPresent(df, ds, R1_SUFFIX)
        total_r2 == TotalsPresent(df, ds, R2_SUFFIX)
        rho == spearmanr(total_r1, total_r2)
    IN  [N_essays           |-> Len(df.rows),
         N_dimensions       |-> Len(ds),
         Spearman_rho_total |-> Round3(rho),
         Spearman_p_value   |-> PValue(rho, Len(df.rows))]

MetricsHeader ==
    <<"dimension", "n_pairs", "kappa_w_quad", "alpha_ordinal", "exact_%", "adjacent_%">>

ReliabilityHeader ==
    <<"N_essays", "N_dimensions", "Spearman_rho_total", "Spearman_p_value">>

\* metrics_df.to_csv: without rows the frame has no columns
MetricsCsv(rs) ==
    [written |-> TRUE,
     header  |-> IF rs = <<>> THEN <<>> ELSE MetricsHeader,
     rows    |-> rs]

\* lines 48-73: an unreadable file, or a table without the "Rad" column,
\* ends the script
LoadRaters ==
    /\ pc = "load"
    /\ IF ~r1_csv.ok \/ ~r2_csv.ok
       THEN /\ pc' = "crashed"
            /\ err' = "ParserError"
            /\ UNCHANGED <<r1, r2, dims>>
       ELSE /\ r1' = LoadRater(r1_csv)
            /\ r2' = LoadRater(r2_csv)
            /\ IF r1_csv.idname # RATER_ID_COL \/ r2_csv.idname # RATER_ID_COL
               THEN /\ pc' = "crashed"
                    /\ err' = "KeyError"
                    /\ UNCHANGED dims
               ELSE /\ dims' = CommonDims(LoadRater(r1_csv), LoadRater(r2_csv))
                    /\ pc' = "metrics"
                    /\ UNCHANGED err
    /\ UNCHANGED <<human_csv, gpt_csvs, human, idx>>
    /\ UNCHANGED <<r1_csv, r2_csv, metric_rows, summary, out_metrics, out_reliability>>
    /\ UNCHANGED <<epa_vars, cmp_vars, alpha_vars, flow_vars>>

\* lines 78-121
ComputeMetrics ==
    /\ pc = "metrics"
    /\ metric_rows' = MetricRows(Merge(r1, r2, R1_SUFFIX, R2_SUFFIX), dims)
    /\ pc' = "totals"
    /\ UNCHANGED <<err, human_csv, gpt_csvs, human, dims, idx>>
    /\ UNCHANGED <<r1_csv, r2_csv, r1, r2, summary, out_metrics, out_reliability>>
    /\ UNCHANGED <<epa_vars, cmp_vars, alpha_vars, flow_vars>>

\* lines 126-141
SaveReliability ==
    /\ pc = "totals"
    /\ summary' = <<ReliabilitySummary(Merge(r1, r2, R1_SUFFIX, R2_SUFFIX), dims)>>
    /\ out_metrics' = MetricsCsv(metric_rows)
    /\ out_reliability' = [written |-> TRUE, header |-> ReliabilityHeader,
                           rows |-> summary']
    /\ pc' = "done"
    /\ UNCHANGED <<err, human_csv, gpt_csvs, human, dims, idx>>
    /\ UNCHANGED <<r1_csv, r2_csv, r1, r2, metric_rows>>
    /\ UNCHANGED <<epa_vars, cmp_vars, alpha_vars, flow_vars>>

NextReliability == LoadRaters \/ ComputeMetrics \/ SaveReliability

-----------------------------------------------------------------------------
(* flow.py: texts *)

\* A text is a sequence of lexemes.  Model output is written with "[", "]",
\* "{", "}", ",", "a" (a scalar: a number, a string, true, false or null),
\* a member's key with its colon ("n" for "naziv_pravila", "o" for "ocena",
\* "k" for any other), "F" (a code fence: three backticks),
\* "J" (the letters json followed by a backslash and an n) and "x" (anything
\* else); a paper with "I", "V", ".", "w" (any other character that is not
\* white space); both with " " and "\n".
WhiteSpace == {" ", "\n"}

MinOf(S) == CHOOSE x \in S : \A y \in S : x <= y

MaxOf(S) == CHOOSE x \in S : \A y \in S : y <= x

\* str.strip()
Strip(s) ==
    LET P == {i \in 1..Len(s) : s[i] \notin WhiteSpace}
    IN  IF P = {} THEN <<>> ELSE SubSeq(s, MinOf(P), MaxOf(P))

\* len(s.split()): the number of maximal runs without white space
WordCount(s) ==
    Cardinality({i \in 1..Len(s) :
        s[i] \notin WhiteSpace /\ (i = 1 \/ s[i - 1] \in WhiteSpace)})

-----------------------------------------------------------------------------
(* json.loads on a text of lexemes *)

\* a parsed value: an atom, a list of items, or a dict of items under keys
JAtom == [t |-> "atom", items |-> <<>>, keys |-> <<>>]

JList(items) == [t |-> "list", items |-> items, keys |-> <<>>]

KeyLexemes == {"k", "n", "o"}

NoParse == [ok |-> FALSE, val |-> JAtom, next |-> 0]

RECURSIVE SkipSpace(_, _)
SkipSpace(s, i) ==
    IF i <= Len(s) /\ s[i] \in WhiteSpace THEN SkipSpace(s, i + 1) ELSE i

RECURSIVE ParseValue(_, _), ParseMembers(_, _, _, _, _)
\* the JSON value that starts at position i
ParseValue(s, i) ==
    IF i > Len(s) THEN NoParse
    ELSE IF s[i] = "a" THEN [ok |-> TRUE, val |-> JAtom, next |-> i + 1]
    ELSE IF s[i] \in {"[", "{"}
    THEN LET j == SkipSpace(s, i + 1)
         IN  IF j <= Len(s) /\ s[j] = (IF s[i] = "[" THEN "]" ELSE "}")
             THEN [ok   |-> TRUE,
                   val  |-> [t |-> IF s[i] = "[" THEN "list" ELSE "dict",
                             items |-> <<>>, keys |-> <<>>],
                   next |-> j + 1]
             ELSE ParseMembers(s, j, s[i], <<>>, <<>>)
    ELSE NoParse

\* the members of the array or object opened by open, from position i on:
\* a member (in an object, after its key), then "," and the next one or the
\* closing bracket
ParseMembers(s, i, open, acc, keys) ==
    LET at == IF open = "["
              THEN i
              ELSE IF i <= Len(s) /\ s[i] \in KeyLexemes THEN SkipSpace(s, i + 1) ELSE 0
        v == ParseValue(s, at)
        j == SkipSpace(s, v.next)
        ks == IF open = "[" THEN keys ELSE Append(keys, s[i])
    IN  IF at = 0 \/ ~v.ok \/ j > Len(s) THEN NoParse
        ELSE IF s[j] = (IF open = "[" THEN "]" ELSE "}")
        THEN [ok   |-> TRUE,
              val  |-> [t |-> IF open = "[" THEN "list" ELSE "dict",
                        items |-> Append(acc, v.val), keys |-> ks],
              next |-> j + 1]
        ELSE IF s[j] = ","
        THEN ParseMembers(s, SkipSpace(s, j + 1), open, Append(acc, v.val), ks)
        ELSE NoParse

\* json.loads(s): one value, white space around it allowed; ok = FALSE is
\* json.JSONDecodeError
json_loads(s) ==
    LET r == ParseValue(s, SkipSpace(s, 1))
    IN  IF r.ok /\ SkipSpace(s, r.next) > Len(s)
        THEN [ok |-> TRUE, val |-> r.val]
        ELSE [ok |-> FALSE, val |-> JAtom]

-----------------------------------------------------------------------------
(* flow.py: extract_json_from_model_output *)

NotReturned == [returned |-> FALSE, raised |-> "none", data |-> JAtom]

Returns(data) == [returned |-> TRUE, raised |-> "none", data |-> data]

Raises(e) == [returned |-> FALSE, raised |-> e, data |-> JAtom]

\* lines 511-513: the opening fence is removed only when "json" is followed
\* by a backslash and an n (the pattern holds two backslashes), the closing
\* fence when it ends the text
RemoveFences(s) ==
    LET s1 == IF Len(s) >= 2 /\ s[1] = "F" /\ s[2] = "J"
              THEN SubSeq(s, 3, Len(s)) ELSE s
        s2 == IF Len(s1) >= 1 /\ s1[Len(s1)] = "F"
              THEN SubSeq(s1, 1, Len(s1) - 1) ELSE s1
    IN  Strip(s2)

\* re.search(open .* close, s, DOTALL): from the first open to the last
\* close after it; <<>> when there is no match, else the match in a sequence
SearchSpan(s, open, close) ==
    LET O == {i \in 1..Len(s) : s[i] = open}
        C == {i \in 1..Len(s) : s[i] = close}
    IN  IF O = {} \/ C = {} THEN <<>>
        ELSE IF MaxOf(C) < MinOf(O) THEN <<>>
        ELSE <<SubSeq(s, MinOf(O), MaxOf(C))>>

\* lines 532-544: the loop over the characters with depth, buf and objs
RECURSIVE SplitObjects(_, _, _, _, _)
SplitObjects(s, i, depth, buf, objs) ==
    IF i > Len(s) THEN objs
    ELSE LET d1 == IF s[i] = "{" THEN depth + 1 ELSE depth
             b1 == IF d1 > 0 THEN Append(buf, s[i]) ELSE buf
             d2 == IF s[i] = "}" THEN d1 - 1 ELSE d1
         IN  IF s[i] = "}" /\ d2 = 0 /\ b1 # <<>>
             THEN SplitObjects(s, i + 1, d2, <<>>, Append(objs, b1))
             ELSE SplitObjects(s, i + 1, d2, b1, objs)

\* lines 545-552: every object parsed, or nothing when one of them fails
ParsedObjects(objs) ==
    IF \A k \in 1..Len(objs) : json_loads(objs[k]).ok
    THEN [k \in 1..Len(objs) |-> json_loads(objs[k]).val]
    ELSE <<>>

\* the object heuristic tried first, also when an array span was found
extract_json_objects_first(txt) ==
    IF Strip(txt) = <<>> THEN Raises("ValueError")
    ELSE LET s == RemoveFences(Strip(txt))
             match_array == SearchSpan(s, "[", "]")
             match_obj == SearchSpan(s, "{", "}")
             parsed == ParsedObjects(SplitObjects(s, 1, 0, <<>>, <<>>))
             whole == json_loads(s)
         IN  IF match_obj # <<>> /\ parsed # <<>>
             THEN Returns(JList(parsed))
             ELSE IF match_array # <<>> /\ json_loads(match_array[1]).ok
             THEN Returns(json_loads(match_array[1]).val)
             ELSE IF whole.ok /\ whole.val.t = "list" THEN Returns(whole.val)
             ELSE IF whole.ok /\ whole.val.t = "dict" THEN Returns(JList(<<whole.val>>))
             ELSE Raises("ValueError")

extract_json_from_model_output(txt) ==
    IF Strip(txt) = <<>> THEN Raises("ValueError")
    ELSE LET s == RemoveFences(Strip(txt))
             match_array == SearchSpan(s, "[", "]")
             match_obj == SearchSpan(s, "{", "}")
             parsed == ParsedObjects(SplitObjects(s, 1, 0, <<>>, <<>>))
             whole == json_loads(s)
         IN  IF /\ match_array # <<>>
                /\ json_loads(match_array[1]).ok
                /\ json_loads(match_array[1]).val.t = "list"
             THEN Returns(json_loads(match_array[1]).val)
             ELSE IF match_obj # <<>> /\ match_array = <<>> /\ parsed # <<>>
             THEN Returns(JList(parsed))
             ELSE IF whole.ok /\ whole.val.t = "list" THEN Returns(whole.val)
             ELSE IF whole.ok /\ whole.val.t = "dict" THEN Returns(JList(<<whole.val>>))
             ELSE Raises("ValueError")

\* one call of extract_json_from_model_output
CallExtract ==
    /\ pc = "call"
    /\ extracted' = extract_json_from_model_output(text)
    /\ pc' = "returned"
    /\ UNCHANGED <<err, human_csv, gpt_csvs, human, dims, idx, text, sections>>
    /\ UNCHANGED <<epa_vars, cmp_vars, rel_vars, alpha_vars>>
    /\ UNCHANGED <<call_vars, eval_vars, pdf_vars>>

NextExtract == CallExtract

-----------------------------------------------------------------------------
(* flow.py: call_model *)

\* line 880: an input folder that does not exist or is no directory
NoFolder == [exists |-> FALSE, entries |-> <<>>]

\* what one call of client.chat.completions.create does: it raises, or it
\* returns a completion whose message content is a text, possibly empty
ApiRaises(e) == [raises |-> e, content |-> <<>>]

ApiContent(txt) == [raises |-> "none", content |-> txt]

\* the answers of the API to one attempt: it raises one of two errors, or
\* answers with an empty content or one of two texts
ApiResponses ==
    {ApiRaises("APIConnectionError"), ApiRaises("RateLimitError"),
     ApiContent(<<>>), ApiContent(<<"[", "a", "]">>), ApiContent(<<"x">>)}

NoReply == [returned |-> FALSE, raised |-> "none", text |-> <<>>]

ReturnsText(txt) == [returned |-> TRUE, raised |-> "none", text |-> txt]

RaisesError(e) == [returned |-> FALSE, raised |-> e, text |-> <<>>]

\* lines 723-739: the attempt fails when the API raises or when the content
\* is empty ("if not text: raise ValueError")
AttemptFailed(r) == r.raises # "none" \/ r.content = <<>>

\* the exception the except clause of line 739 catches
AttemptException(r) == IF r.raises # "none" THEN r.raises ELSE "ValueError"

RECURSIVE Pow2(_)
Pow2(n) == IF n <= 0 THEN 1 ELSE 2 * Pow2(n - 1)

sleep_time_doubled(b, a) == b * Pow2(a)

\* line 743
sleep_time(b, a) == b * Pow2(a - 1)

\* one turn of the loop of lines 721-745, the API answering r
CallModelAttempt ==
    /\ pc = "call"
    /\ \E r \in ApiResponses :
          LET a == attempt + 1
          IN  /\ attempt' = a
              /\ responses' = Append(responses, r)
              /\ IF ~AttemptFailed(r)
                 THEN /\ reply' = ReturnsText(r.content)
                      /\ pc' = "returned"
                      /\ UNCHANGED sleeps
                 ELSE IF a >= max_retries
                 THEN /\ reply' = RaisesError(AttemptException(r))
                      /\ pc' = "raised"
                      /\ UNCHANGED sleeps
                 ELSE /\ sleeps' = Append(sleeps, sleep_time(backoff, a))
                      /\ UNCHANGED <<pc, reply>>
    /\ UNCHANGED <<err, human_csv, gpt_csvs, human, dims, idx, max_retries, backoff>>
    /\ UNCHANGED <<epa_vars, cmp_vars, rel_vars, alpha_vars>>
    /\ UNCHANGED <<text_vars, eval_vars, pdf_vars>>

NextCallModel == CallModelAttempt

\* a whole call, the API answering the attempts with script in order: the
\* reply, the attempts made and the durations slept
RECURSIVE CallModelFrom(_, _, _, _, _)
CallModelFrom(script, retries, b, a, slept) ==
    LET r == script[a]
    IN  IF ~AttemptFailed(r)
        THEN [reply |-> ReturnsText(r.content), attempts |-> a, sleeps |-> slept]
        ELSE IF a >= retries
        THEN [reply |-> RaisesError(AttemptException(r)), attempts |-> a, sleeps |-> slept]
        ELSE CallModelFrom(script, retries, b, a + 1, Append(slept, sleep_time(b, a)))

call_model(script, retries, b) == CallModelFrom(script, retries, b, 1, <<>>)

-----------------------------------------------------------------------------
(* flow.py: parse_sections_by_number *)

\* the keys of RULES["chapters"]; the third is spelled with an s-caron in the
\* source, letter for letter the same in RULES (line 357), numeral_to_chapter
\* (line 607) and chapter_order (line 652)
RULES_chapters == {"Problem", "Teorijske osnove", "Resenje", "Rezultati"}

numeral_to_chapter ==
    [n \in {"I", "II", "III", "IV"} |->
        IF n = "I" THEN "Problem"
        ELSE IF n = "II" THEN "Teorijske osnove"
        ELSE IF n = "III" THEN "Resenje"
        ELSE "Rezultati"]

chapter_order_swapped == <<"Problem", "Resenje", "Teorijske osnove", "Rezultati">>

chapter_order == <<"Problem", "Teorijske osnove", "Resenje", "Rezultati">>

\* s holds the lexemes of w from position q on
Holds(s, q, w) ==
    /\ q + Len(w) - 1 <= Len(s)
    /\ \A k \in 1..Len(w) : s[q + k - 1] = w[k]

\* (I|II|III|IV)\. at position q: the first alternative that the dot follows,
\* "" when there is none
NumeralAt(s, q) ==
    IF Holds(s, q, <<"I", ".">>) THEN "I"
    ELSE IF Holds(s, q, <<"I", "I", ".">>) THEN "II"
    ELSE IF Holds(s, q, <<"I", "I", "I", ".">>) THEN "III"
    ELSE IF Holds(s, q, <<"I", "V", ".">>) THEN "IV"
    ELSE ""

NumeralLen(n) == IF n = "I" THEN 1 ELSE IF n = "III" THEN 3 ELSE 2

RECURSIVE LineEnd(_, _)
\* the first position from i on that holds a newline, or Len(s) + 1
LineEnd(s, i) ==
    IF i > Len(s) \/ s[i] = "\n" THEN i ELSE LineEnd(s, i + 1)

\* ROMAN_HEAD_RE matched at position p: the start of a line, white space
\* (newlines too), the numeral, the dot, white space (newlines too), the rest
\* of the line.  end is the position after the match.
MatchAt(s, p) ==
    LET q == SkipSpace(s, p)
        n == NumeralAt(s, q)
    IN  IF (p = 1 \/ s[p - 1] = "\n") /\ n # ""
        THEN [ok |-> TRUE, start |-> p, marker |-> n,
              end |-> LineEnd(s, SkipSpace(s, q + NumeralLen(n) + 1))]
        ELSE [ok |-> FALSE, start |-> p, marker |-> "", end |-> p]

RECURSIVE FindIter(_, _)
\* ROMAN_HEAD_RE.finditer(text): the matches from position p on, each search
\* resumed where the match before ended
FindIter(s, p) ==
    IF p > Len(s) THEN <<>>
    ELSE LET m == MatchAt(s, p)
         IN  IF m.ok THEN <<m>> \o FindIter(s, m.end) ELSE FindIter(s, p + 1)

\* lines 592-601: the body of every match, up to the start of the next one
Candidates(s) ==
    LET matches == FindIter(s, 1)
    IN  [i \in 1..Len(matches) |->
            [marker |-> matches[i].marker,
             body   |-> Strip(SubSeq(s, matches[i].start,
                                     IF i < Len(matches)
                                     THEN matches[i + 1].start - 1
                                     ELSE Len(s)))]]

\* the section met last kept, as if each numeral's body were overwritten
BestBodyLast(bodies) == bodies[Len(bodies)]

\* max(bodies, key=word count): the first of those with the most words
BestBody(bodies) ==
    bodies[MinOf({i \in 1..Len(bodies) :
                     \A j \in 1..Len(bodies) : WordCount(bodies[j]) <= WordCount(bodies[i])})]

parse_sections_by_number(txt) ==
    IF txt = <<>> THEN <<>>
    ELSE LET cands == Candidates(txt)
             of(n) == SelectSeq(cands, LAMBDA c : c.marker = n)
             found == {n \in DOMAIN numeral_to_chapter : of(n) # <<>>}
         IN  IF cands = <<>> THEN [c \in {"Problem"} |-> Strip(txt)]
             ELSE [c \in {numeral_to_chapter[n] : n \in found} |->
                      LET n == CHOOSE m \in found : numeral_to_chapter[m] = c
                      IN  BestBody([k \in 1..Len(of(n)) |-> of(n)[k].body])]

\* one call of parse_sections_by_number
CallParseSections ==
    /\ pc = "call"
    /\ sections' = parse_sections_by_number(text)
    /\ pc' = "returned"
    /\ UNCHANGED <<err, human_csv, gpt_csvs, human, dims, idx, text, extracted>>
    /\ UNCHANGED <<epa_vars, cmp_vars, rel_vars, alpha_vars>>
    /\ UNCHANGED <<call_vars, eval_vars, pdf_vars>>

NextSections == CallParseSections

-----------------------------------------------------------------------------
(* flow.py: evaluate_markdown and evaluate_sections *)

\* lines 440-487: the rule groups generate_rules_prompt lists; an empty
\* include_chapters stands for every chapter of RULES (lines 474-478)
generate_rules_prompt(include_global, include_chapters) ==
    [global   |-> include_global,
     chapters |-> IF include_chapters = {} THEN RULES_chapters
                  ELSE include_chapters \cap RULES_chapters]

\* what call_model is called with: the rules the prompt lists and the text
\* the prompt holds
Request(rules, txt) == [rules |-> rules, text |-> txt]

\* the answers of the API to the attempts of one call of call_model: at once
\* a list with a rule object; an error and then an object that is no rule
\* object; a text without JSON; three failures
ApiScripts ==
    {<<ApiContent(<<"[", "{", "n", "a", ",", "o", "a", "}", "]">>)>>,
     <<ApiRaises("RateLimitError"), ApiContent(<<"{", "k", "a", "}">>)>>,
     <<ApiContent(<<"x">>)>>,
     <<ApiRaises("RateLimitError"), ApiContent(<<>>), ApiRaises("APIConnectionError")>>}

\* lines 810-841, the API answering with script: call_model with its default
\* max_retries and backoff (line 713), then extract_json_from_model_output
evaluate_markdown(script) ==
    LET raw == call_model(script, 3, 1).reply
    IN  IF raw.returned THEN extract_json_from_model_output(raw.text)
        ELSE Raises(raw.raised)

LogException(what, e) == [level |-> "exception", what |-> what, exc |-> e]

LogWarning(what) == [level |-> "warning", what |-> what, exc |-> "none"]

\* lines 926-930: the warning about an item without "naziv_pravila"
LogSkippedItem(what) == [level |-> "warning", what |-> what, exc |-> "item"]

\* lines 633-639: step 1, evaluate_markdown on the whole text inside a try
EvaluateGlobal ==
    /\ pc = "global"
    /\ \E script \in ApiScripts :
          LET global_eval == evaluate_markdown(script)
          IN  /\ calls' = Append(calls, Request(generate_rules_prompt(TRUE, {}), text))
              /\ api' = Append(api, script)
              /\ IF global_eval.returned
                 THEN /\ all_evals' = all_evals \o global_eval.data.items
                      /\ UNCHANGED log
                 ELSE /\ log' = Append(log, LogException("global", global_eval.raised))
                      /\ UNCHANGED all_evals
    /\ pc' = "parse"
    /\ UNCHANGED <<err, human_csv, gpt_csvs, human, dims, idx, chapter_pos>>
    /\ UNCHANGED <<epa_vars, cmp_vars, rel_vars, alpha_vars>>
    /\ UNCHANGED <<text_vars, call_vars, pdf_vars>>

\* lines 641-649: step 2, with the early return when the dict is empty
ParseSections ==
    /\ pc = "parse"
    /\ sections' = parse_sections_by_number(text)
    /\ IF sections' = <<>>
       THEN /\ log' = Append(log, LogWarning("sections"))
            /\ pc' = "returned"
            /\ UNCHANGED chapter_pos
       ELSE /\ chapter_pos' = 1
            /\ pc' = "chapters"
            /\ UNCHANGED log
    /\ UNCHANGED <<err, human_csv, gpt_csvs, human, dims, idx, text, extracted>>
    /\ UNCHANGED <<api, calls, all_evals>>
    /\ UNCHANGED <<epa_vars, cmp_vars, rel_vars, alpha_vars>>
    /\ UNCHANGED <<call_vars, pdf_vars>>

\* lines 654-701: one turn of the loop over chapter_order; the function
\* returns after the last turn
EvaluateChapter ==
    /\ pc = "chapters"
    /\ LET chapter_key == chapter_order[chapter_pos]
           body == IF chapter_key \in DOMAIN sections THEN sections[chapter_key] ELSE <<>>
       IN  IF body = <<>>
           THEN /\ log' = Append(log, LogWarning(chapter_key))
                /\ UNCHANGED <<api, calls, all_evals>>
           ELSE \E script \in ApiScripts :
                   LET raw == call_model(script, 3, 1).reply
                       parsed == IF raw.returned
                                 THEN extract_json_from_model_output(raw.text)
                                 ELSE Raises(raw.raised)
                   IN  /\ calls' = Append(calls,
                              Request(generate_rules_prompt(FALSE, {chapter_key}), body))
                       /\ api' = Append(api, script)
                       /\ IF parsed.returned
                          THEN /\ all_evals' = all_evals \o parsed.data.items
                               /\ UNCHANGED log
                          ELSE /\ log' = Append(log, LogException(chapter_key, parsed.raised))
                               /\ UNCHANGED all_evals
    /\ chapter_pos' = chapter_pos + 1
    /\ pc' = IF chapter_pos = Len(chapter_order) THEN "returned" ELSE "chapters"
    /\ UNCHANGED <<err, human_csv, gpt_csvs, human, dims, idx>>
    /\ UNCHANGED <<epa_vars, cmp_vars, rel_vars, alpha_vars>>
    /\ UNCHANGED <<text_vars, call_vars, pdf_vars>>

NextEvaluate == EvaluateGlobal \/ ParseSections \/ EvaluateChapter

-----------------------------------------------------------------------------
(* flow.py: process_all_pdfs *)

\* the file names of the input folder in ascending order of their paths, as
\* sorted() orders Path objects on a POSIX system: capitals come first
PathOrder == <<"B.PDF", "a.pdf", "a.txt", "b.pdf">>

\* line 885: p.suffix.lower()
SuffixLower(p) == IF p = "a.txt" THEN ".txt" ELSE ".pdf"

UnsortedPdfs(entries) == SelectSeq(entries, LAMBDA p : SuffixLower(p) = ".pdf")

DryRunRowNameOnly(p) == [k \in {"paper_name"} |-> p]

\* line 884
SortedPdfs(entries) ==
    SelectSeq(PathOrder,
              LAMBDA p : p \in Range(entries) /\ SuffixLower(p) = ".pdf")

\* what parse_pdf_to_markdown returns (lines 490-496): "" on failure, else the
\* markdown, here one line of prose
Markdowns == {<<>>, <<"w", "\n">>}

\* rule_obj.get(key) on a parsed object: the value of the last member with
\* that key, None for an object without it
NoneValue == [t |-> "none", items |-> <<>>, keys |-> <<>>]

DictGet(obj, key) ==
    LET at == {i \in 1..Len(obj.keys) : obj.keys[i] = key}
    IN  IF at = {} THEN NoneValue
        ELSE obj.items[CHOOSE i \in at : \A j \in at : j <= i]

\* a value as a cell of the row: scalars are one name and one score here
CellOf(v) == IF v.t = "atom" THEN "a" ELSE v.t

\* lines 895-896 and 904
DryRunRow(p) ==
    [k \in {"paper_name", "note"} |->
        IF k = "paper_name" THEN p ELSE "dry-run, not evaluated"]

\* lines 923-934: the row built from the rule objects seen so far; an item
\* that is no object has no get (AttributeError), a name that is a list or an
\* object cannot be a key (TypeError), an object without a name is skipped
\* with a warning
RECURSIVE FlattenRow(_, _, _)
FlattenRow(built, eval_list, skipped) ==
    IF eval_list = <<>> THEN [raised |-> "none", row |-> built, skipped |-> skipped]
    ELSE LET rule_obj == Head(eval_list)
             rule_name == DictGet(rule_obj, "n")
             score == DictGet(rule_obj, "o")
         IN  IF rule_obj.t # "dict"
             THEN [raised |-> "AttributeError", row |-> built, skipped |-> skipped]
             ELSE IF rule_name = NoneValue
             THEN FlattenRow(built, Tail(eval_list), skipped + 1)
             ELSE IF rule_name.t # "atom"
             THEN [raised |-> "TypeError", row |-> built, skipped |-> skipped]
             ELSE FlattenRow([k \in DOMAIN built \cup {CellOf(rule_name)} |->
                                 IF k = CellOf(rule_name) THEN CellOf(score)
                                 ELSE built[k]],
                             Tail(eval_list), skipped)

\* OUTPUT_CSV: whether the file is there, and the frames to_csv wrote to it
CsvFile(exists) == [exists |-> exists, writes |-> <<>>]

\* lines 856-865: a frame of at least one row is never empty; the header is
\* written only to a new file
append_rows_to_csv(rows, csv) ==
    [exists |-> TRUE,
     writes |-> Append(csv.writes, [header |-> ~csv.exists, rows |-> rows])]

\* lines 880-893: the folder is checked and its PDF files are sorted
ListPdfs ==
    /\ pc = "start"
    /\ IF ~input_folder.exists
       THEN /\ pc' = "raised"
            /\ err' = "ValueError"
            /\ UNCHANGED <<pdf_files, pdf_idx, log>>
       ELSE /\ pdf_files' = SortedPdfs(input_folder.entries)
            /\ UNCHANGED err
            /\ IF pdf_files' = <<>>
               THEN /\ log' = Append(log, LogWarning("folder"))
                    /\ pc' = "done"
                    /\ UNCHANGED pdf_idx
               ELSE /\ pdf_idx' = 1
                    /\ pc' = "loop"
                    /\ UNCHANGED log
    /\ UNCHANGED <<human_csv, gpt_csvs, human, dims, idx>>
    /\ UNCHANGED <<input_folder, dry_run, mode, markdowns, all_rows, out_csv>>
    /\ UNCHANGED <<api, calls, all_evals, chapter_pos>>
    /\ UNCHANGED <<epa_vars, cmp_vars, rel_vars, alpha_vars>>
    /\ UNCHANGED <<text_vars, call_vars>>

\* lines 895-914: one PDF is parsed; without markdown it is skipped, in a dry
\* run it gives its row at once; else it is evaluated: in mode "sections"
\* evaluate_sections is entered, in any other mode evaluate_markdown is called
ProcessPdf ==
    /\ pc = "loop"
    /\ pdf_idx <= Len(pdf_files)
    /\ \E md \in Markdowns :
          LET pdf_path == pdf_files[pdf_idx]
          IN  /\ markdowns' = Append(markdowns, md)
              /\ IF md = <<>>
                 THEN /\ log' = Append(log, LogWarning(pdf_path))
                      /\ pdf_idx' = pdf_idx + 1
                      /\ UNCHANGED <<pc, all_rows, text, all_evals, chapter_pos, api, calls>>
                 ELSE IF dry_run
                 THEN /\ all_rows' = Append(all_rows, DryRunRow(pdf_path))
                      /\ pdf_idx' = pdf_idx + 1
                      /\ UNCHANGED <<pc, log, text, all_evals, chapter_pos, api, calls>>
                 ELSE IF mode = "sections"
                 THEN /\ text' = md
                      /\ all_evals' = <<>>
                      /\ chapter_pos' = 0
                      /\ pc' = "global"
                      /\ UNCHANGED <<pdf_idx, all_rows, log, api, calls>>
                 ELSE \E script \in ApiScripts :
                         LET eval_list == evaluate_markdown(script)
                             unknown == IF mode = "full" THEN <<>>
                                        ELSE <<LogWarning("mode")>>
                         IN  /\ text' = md
                             /\ calls' = Append(calls,
                                    Request(generate_rules_prompt(TRUE, {}), md))
                             /\ api' = Append(api, script)
                             /\ UNCHANGED <<all_rows, chapter_pos>>
                             /\ IF eval_list.returned
                                THEN /\ all_evals' = eval_list.data.items
                                     /\ log' = log \o unknown
                                     /\ pc' = "returned"
                                     /\ UNCHANGED pdf_idx
                                ELSE /\ log' = log \o unknown \o
                                               <<LogException(pdf_path, eval_list.raised)>>
                                     /\ pdf_idx' = pdf_idx + 1
                                     /\ UNCHANGED <<pc, all_evals>>
    /\ UNCHANGED <<err, human_csv, gpt_csvs, human, dims, idx, extracted, sections>>
    /\ UNCHANGED <<input_folder, dry_run, mode, pdf_files, out_csv>>
    /\ UNCHANGED <<epa_vars, cmp_vars, rel_vars, alpha_vars>>
    /\ UNCHANGED call_vars

\* lines 917-944: the list the evaluation returned is flattened into the row
\* of the PDF; an exception on the way is logged and the row is dropped
CollectRow ==
    /\ pc = "returned"
    /\ LET pdf_path == pdf_files[pdf_idx]
           flat == FlattenRow([k \in {"paper_name"} |-> pdf_path], all_evals, 0)
           warnings == [k \in 1..flat.skipped |-> LogSkippedItem(pdf_path)]
       IN  IF flat.raised = "none"
           THEN /\ all_rows' = Append(all_rows, flat.row)
                /\ log' = log \o warnings
           ELSE /\ log' = log \o warnings \o <<LogException(pdf_path, flat.raised)>>
                /\ UNCHANGED all_rows
    /\ pdf_idx' = pdf_idx + 1
    /\ pc' = "loop"
    /\ UNCHANGED <<err, human_csv, gpt_csvs, human, dims, idx>>
    /\ UNCHANGED <<input_folder, dry_run, mode, pdf_files, markdowns, out_csv>>
    /\ UNCHANGED <<api, calls, all_evals, chapter_pos>>
    /\ UNCHANGED <<epa_vars, cmp_vars, rel_vars, alpha_vars>>
    /\ UNCHANGED <<text_vars, call_vars>>

\* lines 946-951: after the loop
WriteCsv ==
    /\ pc = "loop"
    /\ pdf_idx > Len(pdf_files)
    /\ IF all_rows # <<>>
       THEN out_csv' = append_rows_to_csv(all_rows, out_csv)
       ELSE UNCHANGED out_csv
    /\ pc' = "done"
    /\ UNCHANGED <<err, human_csv, gpt_csvs, human, dims, idx>>
    /\ UNCHANGED <<input_folder, dry_run, mode, pdf_files, pdf_idx, markdowns, all_rows>>
    /\ UNCHANGED eval_vars
    /\ UNCHANGED <<epa_vars, cmp_vars, rel_vars, alpha_vars>>
    /\ UNCHANGED <<text_vars, call_vars>>

NextProcess ==
    \/ ListPdfs
    \/ ProcessPdf
    \/ EvaluateGlobal
    \/ ParseSections
    \/ EvaluateChapter
    \/ CollectRow
    \/ WriteCsv

-----------------------------------------------------------------------------
(* Inputs *)

Cells(max) == {Missing} \cup {Val(v) : v \in 0..max}

Scores(max) == {Val(v) : v \in 0..max}

\* every two-row table with the given header whose first row has its cells in
\* S1 and whose second row has its cells in S2
TwoRowTables(idname, ids, cols, S1, S2) ==
    {Table(idname, cols, <<[id |-> ids[1], cell |-> c1], [id |-> ids[2], cell |-> c2]>>) :
        c1 \in [Range(cols) -> S1], c2 \in [Range(cols) -> S2]}

SeqsUpTo(S, n) == UNION {[1..k -> S] : k \in 0..n}

\* one-paper tables in which every cell holds the same value
UniformTable(idname, p, cols, v) ==
    Table(idname, cols, <<[id |-> p, cell |-> [c \in Range(cols) |-> v]]>>)

BatchHumanFiles ==
    {Unreadable,
     UniformTable(ID_COL, "P1", <<"clarity">>, Val(0)),
     UniformTable(ID_COL, "P1", <<"Unnamed: 0", "clarity", "grammar">>, Val(0)),
     UniformTable("Rad", "P1", <<"clarity">>, Val(0))}

BatchFiles ==
    {Unreadable, UniformTable("Rad", "P1", <<"clarity">>, Val(1))}
    \cup {UniformTable(ID_COL, p, cols, v) :
            p \in {"P1", "P2"},
            cols \in {<<"clarity">>, <<"Unnamed: 0", "clarity", "grammar">>},
            v \in {Missing, Val(MaxScore)}}

PairPapers == <<"P1", "P2">>
PairDims == <<"clarity", "grammar">>

InitCommon ==
    /\ err = "none"
    /\ idx = 1
    /\ all_summaries = <<>>
    /\ all_detailed = <<>>
    /\ out_summary = NotWritten
    /\ out_detailed = NotWritten
    /\ results = <<>>
    /\ dim_lists = <<>>
    /\ out_results = NotWritten
    /\ r1 = Unreadable
    /\ r2 = Unreadable
    /\ metric_rows = <<>>
    /\ summary = <<>>
    /\ out_metrics = NotWritten
    /\ out_reliability = NotWritten
    /\ alpha = NaN

\* the scripts that do not read the raters' files
NoRaterFiles == r1_csv = Unreadable /\ r2_csv = Unreadable

NoAlphaCall == scores_df_long = <<>>

NoTextCall ==
    /\ text = <<>>
    /\ extracted = NotReturned
    /\ sections = <<>>

NoModelCall ==
    /\ max_retries = 0
    /\ backoff = 0
    /\ attempt = 0
    /\ sleeps = <<>>
    /\ responses = <<>>
    /\ reply = NoReply

NoEvaluation ==
    /\ api = <<>>
    /\ calls = <<>>
    /\ log = <<>>
    /\ all_evals = <<>>
    /\ chapter_pos = 0

NoPdfRun ==
    /\ input_folder = NoFolder
    /\ dry_run = FALSE
    /\ mode = "full"
    /\ pdf_files = <<>>
    /\ pdf_idx = 0
    /\ markdowns = <<>>
    /\ all_rows = <<>>
    /\ out_csv = CsvFile(FALSE)

\* the scripts other than flow.py
NoFlowCall == NoTextCall /\ NoModelCall /\ NoEvaluation /\ NoPdfRun

\* a batch run: the script starts with the files as they are on disk
Init ==
    /\ pc = "load"
    /\ human_csv \in BatchHumanFiles
    /\ gpt_csvs \in SeqsUpTo(BatchFiles, MaxFiles)
    /\ human = Unreadable
    /\ dims = <<>>
    /\ InitCommon
    /\ NoRaterFiles
    /\ NoAlphaCall
    /\ NoFlowCall

Spec == Init /\ [][Next]_vars

\* the analysis of one file over two-paper, two-dimension tables.  The first
\* paper's scores may be missing, and the automated ones may leave the rubric's
\* scale (up to MaxScore); the second paper is scored on the scale by both.
PairHumanTables ==
    TwoRowTables(ID_COL, PairPapers, PairDims, Cells(RubricMax), Scores(RubricMax))

PairLLMTables ==
    TwoRowTables(ID_COL, PairPapers, PairDims, Cells(MaxScore), Scores(RubricMax))

InitPairs ==
    /\ pc = "load"
    /\ human_csv \in PairHumanTables
    /\ gpt_csvs \in {<<f>> : f \in PairLLMTables}
    /\ human = Unreadable
    /\ dims = <<>>
    /\ InitCommon
    /\ NoRaterFiles
    /\ NoAlphaCall
    /\ NoFlowCall

SpecPairs == InitPairs /\ [][Next]_vars

\* compare_results.py on one file over three papers and two dimensions: the
\* clarity scores are free, the first paper's possibly missing and the
\* automated one up to MaxScore; the grammar column is one of a few
ComparePapers == <<"P1", "P2", "P3">>

OtherPapers == <<"P2", "P3", "P4">>

TableOfColumns(idname, ids, cols, column) ==
    Table(idname, cols,
          [i \in 1..Len(ids) |->
              [id |-> ids[i], cell |-> [c \in Range(cols) |-> column[c][i]]]])

GrammarColumns ==
    {<<Val(0), Val(1), Val(2)>>, <<Val(1), Val(1), Val(1)>>, <<Missing, Val(1), Missing>>}

ClarityGrammarTables(idname, ids, S1, S2, S3) ==
    {TableOfColumns(idname, ids, PairDims,
                    [d \in Range(PairDims) |-> IF d = "clarity" THEN <<a, b, c>> ELSE g]) :
        a \in S1, b \in S2, c \in S3, g \in GrammarColumns}

CompareHumanTables ==
    ClarityGrammarTables(ID_COL, ComparePapers,
                         Cells(RubricMax), Scores(RubricMax), Scores(RubricMax))

\* automated tables that leave the second paper's grammar unscored, so that
\* grammar has no valid pair against a human table that scored only that
\* paper; the first of them has no valid clarity pair with a human table
\* that left the first paper's clarity unscored
SparseLLMTables ==
    {TableOfColumns(ID_COL, ComparePapers, PairDims,
                    [d \in Range(PairDims) |->
                        IF d = "clarity" THEN c ELSE <<Val(2), Missing, Val(0)>>]) :
        c \in {<<Val(0), Missing, Missing>>, <<Val(0), Val(1), Val(2)>>,
               <<Val(1), Val(1), Val(1)>>}}

CompareLLMTables ==
    ClarityGrammarTables(ID_COL, ComparePapers,
                         Cells(MaxScore), Scores(RubricMax), Scores(RubricMax))
    \cup SparseLLMTables

InitCompare ==
    /\ pc = "load"
    /\ human_csv \in CompareHumanTables
    /\ gpt_csvs \in {<<f>> : f \in CompareLLMTables}
    /\ human = Unreadable
    /\ dims = <<>>
    /\ InitCommon
    /\ NoRaterFiles
    /\ NoAlphaCall
    /\ NoFlowCall

SpecCompare == InitCompare /\ [][NextCompare]_vars

\* evaluate_reliability.py over the same tables, keyed by "Rad"; the second
\* rater may have scored another set of essays (P4, which the first rater
\* did not score, then has the top clarity score).  A few tables more have a
\* third dimension, an empty grammar column or the other scripts' key.
StyleTables ==
    {TableOfColumns(idname, ComparePapers, <<"style", "grammar", "clarity">>,
                    [d \in {"style", "grammar", "clarity"} |->
                        IF d = "style" THEN <<Val(2), Val(0), Val(2)>>
                        ELSE IF d = "grammar" THEN g
                        ELSE <<Val(0), Val(1), Missing>>]) :
        idname \in {RATER_ID_COL, ID_COL},
        g \in {<<Missing, Missing, Missing>>, <<Val(1), Val(2), Val(1)>>}}

Rater1Tables ==
    ClarityGrammarTables(RATER_ID_COL, ComparePapers,
                         Cells(RubricMax), Scores(RubricMax), Scores(RubricMax))
    \cup StyleTables

Rater2Tables ==
    Rater1Tables
    \cup ClarityGrammarTables(RATER_ID_COL, OtherPapers,
                              Cells(RubricMax), Scores(RubricMax), {Val(RubricMax)})

NoBatch ==
    /\ human_csv = Unreadable
    /\ gpt_csvs = <<>>
    /\ human = Unreadable
    /\ dims = <<>>
    /\ InitCommon

InitReliability ==
    /\ pc = "load"
    /\ r1_csv \in Rater1Tables
    /\ r2_csv \in Rater2Tables
    /\ NoBatch
    /\ NoAlphaCall
    /\ NoFlowCall

SpecReliability == InitReliability /\ [][NextReliability]_vars

\* krippendorff_alpha_ordinal on its own: three essays, two raters, every
\* score possibly missing
AlphaEssays == <<"E1", "E2", "E3">>

AlphaRaters == <<"R1", "R2">>

LongFrames ==
    {[k \in 1..(Len(AlphaEssays) * Len(AlphaRaters)) |->
         LongRow(AlphaEssays[((k - 1) % Len(AlphaEssays)) + 1],
                 AlphaRaters[((k - 1) \div Len(AlphaEssays)) + 1],
                 c[k])] :
        c \in [1..(Len(AlphaEssays) * Len(AlphaRaters)) -> Cells(RubricMax)]}

InitAlpha ==
    /\ pc = "call"
    /\ scores_df_long \in LongFrames
    /\ NoBatch
    /\ NoRaterFiles
    /\ NoFlowCall

SpecAlpha == InitAlpha /\ [][NextAlpha]_vars


\* extract_json_from_model_output on its own: the text is put together from
\* at most MaxChunks pieces of model output, single lexemes or an array, an
\* object, an opening fence, or an object with two arrays
JsonChunks ==
    {<<"[">>, <<"]">>, <<"{">>, <<"}">>, <<",">>, <<"a">>, <<"x">>, <<" ">>,
     <<"F">>, <<"F", "J">>, <<"[", "a", "]">>, <<"{", "k", "a", "}">>, <<"{", "k">>,
     <<"{", "k", "[", "a", "]", ",", "k", "[", "a", "]", "}">>}

ModelOutputs == {Flatten(cs) : cs \in SeqsUpTo(JsonChunks, MaxChunks)}

InitExtract ==
    /\ pc = "call"
    /\ text \in ModelOutputs
    /\ extracted = NotReturned
    /\ sections = <<>>
    /\ NoModelCall
    /\ NoEvaluation
    /\ NoPdfRun
    /\ NoBatch
    /\ NoRaterFiles
    /\ NoAlphaCall

SpecExtract == InitExtract /\ [][NextExtract]_vars

\* parse_sections_by_number on its own: the paper is put together from at
\* most MaxChunks pieces, single lexemes or a one-line section
Heading(n, words) == n \o <<".">> \o words \o <<"\n">>

PaperChunks ==
    {<<"I">>, <<"I", ".">>, <<"I", "I", ".">>, <<"V", ".">>, <<"w">>, <<" ">>, <<"\n">>,
     Heading(<<"I">>, <<" ", "w">>), Heading(<<"I">>, <<" ", "w", " ", "w">>),
     Heading(<<"I", "I">>, <<" ", "w">>), Heading(<<"I", "I", "I">>, <<" ", "w">>),
     Heading(<<"I", "V">>, <<" ", "w">>)}

Papers == {Flatten(cs) : cs \in SeqsUpTo(PaperChunks, MaxChunks)}

InitSections ==
    /\ pc = "call"
    /\ text \in Papers
    /\ extracted = NotReturned
    /\ sections = <<>>
    /\ NoModelCall
    /\ NoEvaluation
    /\ NoPdfRun
    /\ NoBatch
    /\ NoRaterFiles
    /\ NoAlphaCall

SpecSections == InitSections /\ [][NextSections]_vars

\* call_model on its own
InitCallModel ==
    /\ pc = "call"
    /\ max_retries \in 0..MaxRetries
    /\ backoff \in {1, 3}
    /\ attempt = 0
    /\ sleeps = <<>>
    /\ responses = <<>>
    /\ reply = NoReply
    /\ NoBatch
    /\ NoRaterFiles
    /\ NoAlphaCall
    /\ NoTextCall
    /\ NoEvaluation
    /\ NoPdfRun

SpecCallModel == InitCallModel /\ [][NextCallModel]_vars

\* the loop goes on by itself: the request and the sleep both come back
FairCallModel == SpecCallModel /\ WF_vars(CallModelAttempt)

\* evaluate_sections on its own: the paper has, under each of the four
\* numerals, a section with a body, a heading without one, or nothing; the
\* sections stand in rising or in falling order; or it is one line of prose
Section(n) == Heading(n, <<" ", "w">>) \o <<"w", "\n">>

Numerals == <<<<"I">>, <<"I", "I">>, <<"I", "I", "I">>, <<"I", "V">>>>

Piece(n, kind) ==
    IF kind = "section" THEN Section(n)
    ELSE IF kind = "heading" THEN Heading(n, <<" ", "w">>)
    ELSE <<>>

Paper(order, kinds) ==
    Flatten([k \in 1..Len(order) |-> Piece(Numerals[order[k]], kinds[order[k]])])

SectionPapers ==
    {Paper(order, kinds) :
        order \in {<<1, 2, 3, 4>>, <<4, 3, 2, 1>>},
        kinds \in [1..4 -> {"section", "heading", "none"}]}
    \cup {<<"w", "\n">>}

InitEvaluate ==
    /\ pc = "global"
    /\ text \in SectionPapers
    /\ extracted = NotReturned
    /\ sections = <<>>
    /\ NoEvaluation
    /\ NoBatch
    /\ NoRaterFiles
    /\ NoAlphaCall
    /\ NoModelCall
    /\ NoPdfRun

SpecEvaluate == InitEvaluate /\ [][NextEvaluate]_vars

\* process_all_pdfs: the folder is missing, or iterdir lists at most MaxPdfs
\* of the four files in some order; OUTPUT_CSV is there already or not
Folders ==
    {NoFolder} \cup
    {[exists |-> TRUE, entries |-> e] :
        e \in {q \in SeqsUpTo(Range(PathOrder), MaxPdfs) :
                  \A i, j \in 1..Len(q) : i # j => q[i] # q[j]}}

InitProcess ==
    /\ pc = "start"
    /\ input_folder \in Folders
    /\ dry_run \in BOOLEAN
    /\ mode \in {"full", "sections", "chapters"}
    /\ out_csv \in {CsvFile(FALSE), CsvFile(TRUE)}
    /\ pdf_files = <<>>
    /\ pdf_idx = 0
    /\ markdowns = <<>>
    /\ all_rows = <<>>
    /\ NoTextCall
    /\ NoEvaluation
    /\ NoModelCall
    /\ NoBatch
    /\ NoRaterFiles
    /\ NoAlphaCall

SpecProcess == InitProcess /\ [][NextProcess]_vars

-----------------------------------------------------------------------------
(* The inputs as the claims speak of them: read off the tables, not the join *)

Ids(t) == {t.rows[i].id : i \in 1..Len(t.rows)}

DataCols(t) == Range(t.cols) \ UnnamedCols

RowOf(t, p) == t.rows[CHOOSE i \in 1..Len(t.rows) : t.rows[i].id = p]

Present(t, p, d) ==
    /\ p \in Ids(t)
    /\ d \in DataCols(t)
    /\ RowOf(t, p).cell[d] # Missing

Score(t, p, d) == RowOf(t, p).cell[d][1]

\* the valid (paper, dimension) pairs of a human table and an automated table
ValidPairs(h, g) ==
    {pd \in Ids(h) \X DataCols(h) : Present(h, pd[1], pd[2]) /\ Present(g, pd[1], pd[2])}

PairDelta(h, g, pd) == Score(g, pd[1], pd[2]) - Score(h, pd[1], pd[2])

\* the files analysed so far are gpt_csvs[1..Len(all_summaries)]
Analysed == 1..Len(all_summaries)

CountType(k, t) ==
    Cardinality({i \in 1..Len(all_detailed[k]) : all_detailed[k][i].error_type = t})

CountDelta(k, v) ==
    Cardinality({i \in 1..Len(all_detailed[k]) : all_detailed[k][i].delta = v})

-----------------------------------------------------------------------------
(* C1: in the detailed output every valid pair has exactly one error_type, *)
(* 'exact' iff |delta| = 0, 'minor' iff |delta| = 1, 'severe' iff          *)
(* |delta| >= 2, so the exact, minor and severe records of a file number   *)
(* its valid pairs.                                                        *)
C1_ErrorTypePartition ==
    \A k \in Analysed :
        /\ \A i \in 1..Len(all_detailed[k]) :
              LET r == all_detailed[k][i]
              IN  /\ r.error_type \in {"exact", "minor", "severe"}
                  /\ r.error_type = "exact" <=> Abs(r.delta) = 0
                  /\ r.error_type = "minor" <=> Abs(r.delta) = 1
                  /\ r.error_type = "severe" <=> Abs(r.delta) >= 2
        /\ CountType(k, "exact") + CountType(k, "minor") + CountType(k, "severe")
             = Cardinality(ValidPairs(human, gpt_csvs[k]))

\* a file with an exact, a minor (delta -1) and a severe (|delta| = 3) record
C1_Witness ==
    \E k \in Analysed :
        /\ CountType(k, "exact") > 0
        /\ CountDelta(k, 0 - 1) > 0
        /\ \E i \in 1..Len(all_detailed[k]) :
              /\ Abs(all_detailed[k][i].delta) = 3
              /\ all_detailed[k][i].error_type = "severe"

-----------------------------------------------------------------------------
(* C2: for every analysed file with at least one valid pair, exact_% +     *)
(* minor_% + severe_% = 100 and severe_% is the percentage of the file's   *)
(* detailed records whose error_type is 'severe', also when some           *)
(* |delta| >= 3.                                                           *)
C2_SummaryPercentagesPartition ==
    \A k \in Analysed :
        LET sm == all_summaries[k]
            e == sm.exact_pct
            m == sm.minor_pct
            v == sm.severe_pct
        IN  sm.n_comparisons > 0 =>
              /\ e[1] * m[2] * v[2] + m[1] * e[2] * v[2] + v[1] * e[2] * m[2]
                   = 100 * e[2] * m[2] * v[2]
              /\ v[1] * sm.n_comparisons = 100 * CountType(k, "severe") * v[2]

-----------------------------------------------------------------------------
(* C3: the recorded delta of every valid pair is automated minus human     *)
(* score; direction is 'over' iff delta > 0, 'under' iff delta < 0, 'none' *)
(* iff delta = 0, so direction is 'none' exactly on the 'exact' records.   *)
C3_DeltaAndDirection ==
    \A k \in Analysed :
        /\ LET pairs == ValidPairs(human, gpt_csvs[k])
               delta == [pd \in pairs |-> PairDelta(human, gpt_csvs[k], pd)]
               seen == {all_detailed[k][i].delta : i \in 1..Len(all_detailed[k])}
                          \cup {delta[pd] : pd \in pairs}
           IN  \A v \in seen :
                  CountDelta(k, v) = Cardinality({pd \in pairs : delta[pd] = v})
        /\ \A i \in 1..Len(all_detailed[k]) :
              LET r == all_detailed[k][i]
              IN  /\ r.direction = "over" <=> r.delta > 0
                  /\ r.direction = "under" <=> r.delta < 0
                  /\ r.direction = "none" <=> r.delta = 0
                  /\ r.direction = "none" <=> r.error_type = "exact"

\* a file with an over-scored, an under-scored and an exactly scored pair
C3_Witness ==
    \E k \in Analysed :
        /\ \E i \in 1..Len(all_detailed[k]) : all_detailed[k][i].direction = "over"
        /\ \E i \in 1..Len(all_detailed[k]) : all_detailed[k][i].direction = "under"
        /\ \E i \in 1..Len(all_detailed[k]) : all_detailed[k][i].direction = "none"

-----------------------------------------------------------------------------
(* C4: the end-to-end scenario.  Human {P1: clarity 2, grammar 1; P2:      *)
(* clarity 0, grammar 2}, automated {P1: clarity 2, grammar 2; P2:         *)
(* clarity 1, grammar 2} give the deltas 0, +1, +1, 0 and the summary      *)
(* n = 4, exact 50, minor 50, severe 0, over 50, under 0, mean_delta 1/2.  *)
ScenarioTable(c1, g1, c2, g2) ==
    Table(ID_COL, PairDims,
          <<[id |-> "P1", cell |-> [d \in Range(PairDims) |->
                                      IF d = "clarity" THEN Val(c1) ELSE Val(g1)]],
            [id |-> "P2", cell |-> [d \in Range(PairDims) |->
                                      IF d = "clarity" THEN Val(c2) ELSE Val(g2)]]>>)

ScenarioHuman == ScenarioTable(2, 1, 0, 2)

ScenarioLLM == ScenarioTable(2, 2, 1, 2)

ScenarioRecord(k, delta, type, dir) ==
    [file |-> k, delta |-> delta, error_type |-> type, direction |-> dir]

C4_EndToEnd ==
    \A k \in Analysed :
        (human = ScenarioHuman /\ gpt_csvs[k] = ScenarioLLM) =>
            /\ all_detailed[k] =
                 <<ScenarioRecord(k, 0, "exact", "none"),
                   ScenarioRecord(k, 1, "minor", "over"),
                   ScenarioRecord(k, 1, "minor", "over"),
                   ScenarioRecord(k, 0, "exact", "none")>>
            /\ all_summaries[k].n_comparisons = 4
            /\ all_summaries[k].exact_pct = <<50, 1>>
            /\ all_summaries[k].minor_pct = <<50, 1>>
            /\ all_summaries[k].severe_pct = <<0, 1>>
            /\ all_summaries[k].over_scoring_pct = <<50, 1>>
            /\ all_summaries[k].under_scoring_pct = <<0, 1>>
            /\ all_summaries[k].mean_delta = <<1, 2>>

\* the scenario's file has been analysed and written out
C4_Witness ==
    /\ pc = "done"
    /\ human = ScenarioHuman
    /\ gpt_csvs = <<ScenarioLLM>>
    /\ Len(out_detailed.rows) = 4
    /\ Len(out_summary.rows) = 1

-----------------------------------------------------------------------------
(* The outcome of the batch as the claims speak of it *)

Ended == pc \in {"done", "crashed"}

\* file k has been handed to analyze_llm_file: it returned, or it raised and
\* ended the script
Processed(k) == human_csv.ok /\ pc # "load" /\ (k < idx \/ (k = idx /\ pc = "crashed"))

\* a file whose read, merge and analysis raise nothing
Usable(k) == AnalyzeRaises(human, dims, gpt_csvs[k]) = "none"

HasIdCol(t) == t.idname = ID_COL

-----------------------------------------------------------------------------
(* C5: a malformed or unreadable file in a batch does not abort the run:   *)
(* every other file is analysed and the summary output holds exactly one   *)
(* row per valid file and none for the malformed one.                      *)
C5_MalformedFileIsolated ==
    (/\ Ended
     /\ human_csv.ok
     /\ \E k \in 1..Len(gpt_csvs) : ~Usable(k)
     /\ \E k \in 1..Len(gpt_csvs) : Usable(k))
    =>
    /\ out_summary.written
    /\ Len(out_summary.rows) = Cardinality({k \in 1..Len(gpt_csvs) : Usable(k)})
    /\ \A i \in 1..Len(out_summary.rows) : Usable(out_summary.rows[i].file)

-----------------------------------------------------------------------------
(* C6: a run with zero usable automated-source files ends without raising  *)
(* and writes its output files, empty of rows but with the column headers. *)
C6_EmptyRunWritesHeaders ==
    (/\ Ended
     /\ human_csv.ok
     /\ \A k \in 1..Len(gpt_csvs) : ~Usable(k))
    =>
    /\ pc = "done"
    /\ out_summary = [written |-> TRUE, header |-> SummaryHeader, rows |-> <<>>]
    /\ out_detailed = [written |-> TRUE, header |-> DetailedHeader, rows |-> <<>>]

-----------------------------------------------------------------------------
(* C7: when the inner join on the identifier column has zero rows the      *)
(* comparison ends in EmptyInputError and emits no summary row of          *)
(* empty/NaN metrics for that table pair.                                  *)
C7_EmptyJoinIsError ==
    \A k \in 1..Len(gpt_csvs) :
        (/\ Processed(k)
         /\ gpt_csvs[k].ok
         /\ HasIdCol(human) /\ HasIdCol(gpt_csvs[k])
         /\ DataCols(human) \subseteq DataCols(gpt_csvs[k])
         /\ Ids(human) \cap Ids(gpt_csvs[k]) = {})
        =>
        /\ pc = "crashed" /\ idx = k
        /\ err = "EmptyInputError"
        /\ k \notin Analysed

-----------------------------------------------------------------------------
(* C8: when the identifier column is absent from either table the          *)
(* comparison fails with ConfigurationError and produces no metric or row  *)
(* for that table pair.                                                    *)
C8_MissingIdIsConfigurationError ==
    \A k \in 1..Len(gpt_csvs) :
        (/\ Processed(k)
         /\ gpt_csvs[k].ok
         /\ ~(HasIdCol(human) /\ HasIdCol(gpt_csvs[k])))
        =>
        /\ pc = "crashed" /\ idx = k
        /\ err = "ConfigurationError"
        /\ k \notin Analysed

-----------------------------------------------------------------------------
(* C9: a rubric dimension present in only one of the two tables never      *)
(* makes the comparison fail; it is left out of every statistic, which     *)
(* uses only the dimensions present in both tables.                        *)
C9_OneSidedDimensionTolerated ==
    \A k \in 1..Len(gpt_csvs) :
        (/\ Processed(k)
         /\ gpt_csvs[k].ok
         /\ HasIdCol(human) /\ HasIdCol(gpt_csvs[k])
         /\ DataCols(human) # DataCols(gpt_csvs[k]))
        =>
        /\ k \in Analysed
        /\ all_summaries[k].n_comparisons
             = Cardinality({pd \in ValidPairs(human, gpt_csvs[k]) :
                              pd[2] \in DataCols(human) \cap DataCols(gpt_csvs[k])})

-----------------------------------------------------------------------------
(* C10: missing scores are dropped pairwise per dimension: a paper whose   *)
(* score is missing on either side in dimension A and present on both      *)
(* sides in dimension B is left out of A's pairs only and still gives one  *)
(* valid pair, and its delta, to B.                                        *)
DimIndex(d) == CHOOSE j \in 1..Len(dims) : dims[j] = d

\* the deltas of the detailed records that the loop emitted for dims[j]: the
\* records follow the dimensions in order, one block of valid pairs each
DimBlock(k, j) ==
    LET pairs == ValidPairs(human, gpt_csvs[k])
        off == Cardinality({pd \in pairs : DimIndex(pd[2]) < j})
        n == Cardinality({pd \in pairs : DimIndex(pd[2]) = j})
    IN  [i \in 1..n |-> all_detailed[k][off + i].delta]

MissingEitherSide(h, g, p, d) == ~Present(h, p, d) \/ ~Present(g, p, d)

PresentBothSides(h, g, p, d) == Present(h, p, d) /\ Present(g, p, d)

C10_PairwiseMissing ==
    \A k \in Analysed :
        LET g == gpt_csvs[k]
            pairs == ValidPairs(human, g)
        IN  /\ all_summaries[k].n_comparisons = Cardinality(pairs)
            /\ Len(all_detailed[k]) = Cardinality(pairs)
            /\ \A j \in 1..Len(dims) :
                  /\ Len(DimBlock(k, j))
                       = Cardinality({p \in Ids(human) : PresentBothSides(human, g, p, dims[j])})
                  /\ Range(DimBlock(k, j))
                       = {PairDelta(human, g, pd) : pd \in {q \in pairs : q[2] = dims[j]}}
            /\ \A p \in Ids(human) : \A a, b \in Range(dims) :
                  (MissingEitherSide(human, g, p, a) /\ PresentBothSides(human, g, p, b))
                  => /\ <<p, a>> \notin pairs
                     /\ PairDelta(human, g, <<p, b>>) \in Range(DimBlock(k, DimIndex(b)))

\* an analysed file in which P1 has no valid clarity pair and a valid grammar
\* pair: clarity contributes P2's pair alone, grammar both papers'
C10_Witness ==
    \E k \in Analysed :
        /\ MissingEitherSide(human, gpt_csvs[k], "P1", "clarity")
        /\ PresentBothSides(human, gpt_csvs[k], "P1", "grammar")
        /\ all_summaries[k].n_comparisons = 3
        /\ Len(DimBlock(k, 1)) = 1
        /\ Len(DimBlock(k, 2)) = 2

-----------------------------------------------------------------------------
(* C12: swapping the human and the automated table negates every delta     *)
(* and mean_delta, exchanges over_scoring_% with under_scoring_% (each     *)
(* 'over' record becomes 'under' and vice versa) and leaves n_comparisons, *)
(* exact_%, minor_% and severe_% unchanged.                                *)
Neg(x) == IF x = NaN THEN NaN ELSE <<0 - x[1], x[2]>>

CountIn(recs, field, v) ==
    Cardinality({i \in 1..Len(recs) : recs[i][field] = v})

\* the analysis of file k with the two tables exchanged: the automated table
\* takes the place of HUMAN_FILE and the human file is the one analysed
SwappedRun(k) ==
    LET g == StripUnnamed(gpt_csvs[k])
    IN  analyze_llm_file(g, DimsOf(g), k, human_csv)

SwappedRaises(k) ==
    LET g == StripUnnamed(gpt_csvs[k])
    IN  AnalyzeRaises(g, DimsOf(g), human_csv)

C12_SwapSymmetry ==
    \A k \in Analysed :
        SwappedRaises(k) = "none" =>
            LET a == all_summaries[k]
                sw == SwappedRun(k)
                b == sw.summary
                seen == {all_detailed[k][i].delta : i \in 1..Len(all_detailed[k])}
                           \cup {0 - sw.detailed[i].delta : i \in 1..Len(sw.detailed)}
            IN  /\ b.n_comparisons = a.n_comparisons
                /\ b.exact_pct = a.exact_pct
                /\ b.minor_pct = a.minor_pct
                /\ b.severe_pct = a.severe_pct
                /\ b.over_scoring_pct = a.under_scoring_pct
                /\ b.under_scoring_pct = a.over_scoring_pct
                /\ b.mean_delta = Neg(a.mean_delta)
                /\ \A v \in seen :
                      CountIn(sw.detailed, "delta", 0 - v) = CountDelta(k, v)
                /\ CountIn(sw.detailed, "direction", "under")
                     = CountIn(all_detailed[k], "direction", "over")
                /\ CountIn(sw.detailed, "direction", "over")
                     = CountIn(all_detailed[k], "direction", "under")
                /\ CountIn(sw.detailed, "direction", "none")
                     = CountIn(all_detailed[k], "direction", "none")

\* an analysed file with a missing score, more over-scored than under-scored
\* pairs and an exact pair, whose swapped analysis has a negative mean_delta
C12_Witness ==
    \E k \in Analysed :
        /\ SwappedRaises(k) = "none"
        /\ all_summaries[k].n_comparisons = 3
        /\ CountIn(all_detailed[k], "direction", "over") = 2
        /\ CountIn(all_detailed[k], "direction", "none") = 1
        /\ SwappedRun(k).summary.mean_delta = <<0 - 1, 1>>
        /\ SwappedRun(k).summary.under_scoring_pct = <<200, 3>>

-----------------------------------------------------------------------------
(* C17: for each analysed file the number of detailed records emitted for  *)
(* it equals its summary row's n_comparisons, which equals the number of   *)
(* valid (paper, dimension) pairs pooled over all dimensions; exactly one  *)
(* summary row is emitted per analysed file.                               *)
RowsOfFile(recs, k) == Cardinality({i \in 1..Len(recs) : recs[i].file = k})

C17_RecordsMatchSummary ==
    /\ Len(all_summaries) = Len(all_detailed)
    /\ Len(all_summaries) = idx - 1
    /\ \A k \in Analysed :
          /\ RowsOfFile(all_summaries, k) = 1
          /\ all_summaries[k].file = k
          /\ \A i \in 1..Len(all_detailed[k]) : all_detailed[k][i].file = k
          /\ Len(all_detailed[k]) = all_summaries[k].n_comparisons
          /\ all_summaries[k].n_comparisons
               = SumSeq([j \in 1..Len(dims) |->
                    Cardinality({p \in Ids(human) \cap Ids(gpt_csvs[k]) :
                        /\ RowOf(human, p).cell[dims[j]] # Missing
                        /\ RowOf(gpt_csvs[k], p).cell[dims[j]] # Missing})])
    /\ out_summary.written =>
          /\ Len(out_summary.rows) = Len(gpt_csvs)
          /\ \A k \in 1..Len(gpt_csvs) :
                /\ RowsOfFile(out_summary.rows, k) = 1
                /\ RowsOfFile(out_detailed.rows, k) = all_summaries[k].n_comparisons

\* a finished batch of two files, one with two valid pairs pooled over two
\* dimensions and one with none, each with its one summary row
C17_Witness ==
    /\ pc = "done"
    /\ Len(out_summary.rows) = 2
    /\ Len(dims) = 2
    /\ \E k \in Analysed : RowsOfFile(out_detailed.rows, k) = 2
    /\ \E k \in Analysed : all_summaries[k].n_comparisons = 0

-----------------------------------------------------------------------------
(* The inputs of compare_results.py as the claims speak of them *)

\* the files evaluated so far are gpt_csvs[1..Len(results)]
Evaluated == 1..Len(results)

\* the papers with a score from both sources in dimension d
ValidPapers(h, g, d) ==
    {p \in Ids(h) \cap Ids(g) : Present(h, p, d) /\ Present(g, p, d)}

ScoresOf(t, P, d) == {Score(t, p, d) : p \in P}

\* the dimensions with at least one valid pair, in the order of dims
DimsWithPairs(h, g) == SelectSeq(dims, LAMBDA d : ValidPapers(h, g, d) # {})

\* one source gives the same score to every valid paper of dimension d
OneSourceConstant(h, g, d) ==
    LET P == ValidPapers(h, g, d)
    IN  /\ P # {}
        /\ \/ Cardinality(ScoresOf(h, P, d)) = 1
           \/ Cardinality(ScoresOf(g, P, d)) = 1

\* both sources give one and the same score to every valid paper of d
SingleCategory(h, g, d) ==
    LET P == ValidPapers(h, g, d)
    IN  /\ P # {}
        /\ Cardinality(ScoresOf(h, P, d) \cup ScoresOf(g, P, d)) = 1

\* m is a median of the list s
IsMedian(m, s) ==
    /\ 2 * Cardinality({i \in 1..Len(s) : RatLeq(s[i], m)}) >= Len(s)
    /\ 2 * Cardinality({i \in 1..Len(s) : RatLeq(m, s[i])}) >= Len(s)

\* the aggregates of file k are taken over exactly the dimensions ds
KappaAggregatedOver(k, ds) ==
    LET ks == dim_lists[k].kappa_list
    IN  /\ Len(ks) = Len(ds)
        /\ results[k].n_dimensions_evaluated = Len(ds)
        /\ \A j \in 1..Len(ks) : ks[j] # NaN
        /\ IF ds = <<>>
           THEN results[k].kappa_mean = NaN /\ results[k].kappa_median = NaN
           ELSE /\ results[k].kappa_mean # NaN
                /\ RatMul(results[k].kappa_mean, <<Len(ks), 1>>) = RatSum(ks)
                /\ results[k].kappa_median # NaN
                /\ IsMedian(results[k].kappa_median, ks)

-----------------------------------------------------------------------------
(* C14, as stated: for a dimension in which one source gives the same      *)
(* score to every paper the weighted kappa is recorded as undefined, and   *)
(* the file's kappa mean and median are computed over the remaining        *)
(* dimensions only.                                                        *)
C14_ConstantSourceKappaUndefined ==
    \A k \in Evaluated :
        LET g == gpt_csvs[k]
        IN  KappaAggregatedOver(k,
                SelectSeq(DimsWithPairs(human, g),
                          LAMBDA d : ~OneSourceConstant(human, g, d)))

(* C14, amended: the weighted kappa of a dimension is undefined exactly    *)
(* when only one score category is observed in its valid pairs (both       *)
(* sources give every paper the same score); it is then left out of the    *)
(* file's kappa mean and median, which are computed over the remaining     *)
(* dimensions (and are missing when none remains).  When one source is     *)
(* constant and the other is not, the kappa is the ordinary number 0 and   *)
(* enters the aggregates.                                                  *)
C14_SingleCategoryKappaUndefined ==
    \A k \in Evaluated :
        LET g == gpt_csvs[k]
            defined == SelectSeq(DimsWithPairs(human, g),
                                 LAMBDA d : ~SingleCategory(human, g, d))
        IN  /\ KappaAggregatedOver(k, defined)
            /\ \A j \in 1..Len(defined) :
                  OneSourceConstant(human, g, defined[j])
                  => dim_lists[k].kappa_list[j] = <<0, 1>>

\* an evaluated file whose grammar scores are 1 for every paper in both
\* sources and whose clarity kappa is defined and not 0: the aggregates are
\* the clarity kappa alone
C14_Witness ==
    \E k \in Evaluated :
        /\ SingleCategory(human, gpt_csvs[k], "grammar")
        /\ ~OneSourceConstant(human, gpt_csvs[k], "clarity")
        /\ Cardinality(ValidPapers(human, gpt_csvs[k], "clarity")) = 3
        /\ results[k].n_dimensions_evaluated = 1
        /\ results[k].kappa_mean = dim_lists[k].kappa_list[1]
        /\ results[k].kappa_mean # <<0, 1>>
        /\ Len(dim_lists[k].exact_list) = 2

-----------------------------------------------------------------------------
(* C15: for every dimension with at least one valid pair, exact_% and      *)
(* adjacent_% lie in [0, 100] with exact_% <= adjacent_%, and the weighted *)
(* kappa, when defined, lies in [-1, 1].                                   *)
InUnitPercent(x) == x # NaN /\ RatLeq(<<0, 1>>, x) /\ RatLeq(x, <<100, 1>>)

C15_Ranges ==
    \A k \in Evaluated :
        LET ls == dim_lists[k]
            n == Len(DimsWithPairs(human, gpt_csvs[k]))
        IN  /\ Len(ls.exact_list) = n
            /\ Len(ls.adjacent_list) = n
            /\ \A j \in 1..n :
                  /\ InUnitPercent(ls.exact_list[j])
                  /\ InUnitPercent(ls.adjacent_list[j])
                  /\ RatLeq(ls.exact_list[j], ls.adjacent_list[j])
            /\ \A j \in 1..Len(ls.kappa_list) :
                  /\ RatLeq(<<0 - 1, 1>>, ls.kappa_list[j])
                  /\ RatLeq(ls.kappa_list[j], <<1, 1>>)

\* an evaluated file with a negative kappa and a dimension whose pairs all
\* differ by more than one, next to a dimension in full agreement
C15_Witness ==
    \E k \in Evaluated :
        /\ \E j \in 1..Len(dim_lists[k].kappa_list) :
              /\ dim_lists[k].kappa_list[j] # NaN
              /\ dim_lists[k].kappa_list[j][1] < 0
        /\ \E j \in 1..Len(dim_lists[k].exact_list) :
              /\ dim_lists[k].exact_list[j] = <<0, 1>>
              /\ dim_lists[k].adjacent_list[j] = <<100, 3>>
        /\ \E j \in 1..Len(dim_lists[k].exact_list) :
              dim_lists[k].exact_list[j] = <<100, 1>>

-----------------------------------------------------------------------------
(* C20: for every joined paper and each source the total score is the sum  *)
(* of that source's non-missing scores over the dimensions: a missing      *)
(* score contributes 0 and is not imputed, so a paper with all scores      *)
(* missing has total 0 and still enters the total-score rank correlation   *)
(* and the total MAE.                                                      *)
PresentDims(t, p) == {d \in DataCols(t) : Present(t, p, d)}

RECURSIVE SumOver(_, _, _)
SumOver(t, p, D) ==
    IF D = {} THEN 0
    ELSE LET d == CHOOSE x \in D : TRUE
         IN  Score(t, p, d) + SumOver(t, p, D \ {d})

\* the sum of the scores table t holds for paper p
TotalScore(t, p) == SumOver(t, p, PresentDims(t, p))

\* the joined papers in the order of the human table
JoinedPapers(h, g) ==
    LET rows == SelectSeq(h.rows, LAMBDA x : x.id \in Ids(g))
    IN  List([i \in 1..Len(rows) |-> rows[i].id])

C20_TotalsSkipMissing ==
    \A k \in Evaluated :
        LET g == gpt_csvs[k]
            ps == JoinedPapers(human, g)
            th == List([i \in 1..Len(ps) |-> TotalScore(human, ps[i])])
            tg == List([i \in 1..Len(ps) |-> TotalScore(g, ps[i])])
        IN  /\ results[k].mae_total[1] * Len(ps)
                 = results[k].mae_total[2] * SumSeq([i \in 1..Len(ps) |-> Abs(th[i] - tg[i])])
            /\ results[k].rho_total = spearmanr(th, tg)
            /\ \A i \in 1..Len(ps) :
                  PresentDims(human, ps[i]) = {} => th[i] = 0

\* an evaluated file in which P1 has no human score at all and automated
\* scores 3 and 0: its totals 0 and 3 enter the total MAE (3 + 0 + 3) / 3 and
\* the rank correlation, which is -1
C20_Witness ==
    \E k \in Evaluated :
        /\ PresentDims(human, "P1") = {}
        /\ TotalScore(gpt_csvs[k], "P1") = 3
        /\ TotalScore(human, "P2") = TotalScore(gpt_csvs[k], "P2")
        /\ results[k].mae_total = <<2, 1>>
        /\ results[k].rho_total = <<0 - 1, 1>>

-----------------------------------------------------------------------------
(* The argument of krippendorff_alpha_ordinal as the claims speak of it *)

Given(long) == {i \in 1..Len(long) : long[i].score # Missing}

ObservedCategories(long) == {long[i].score[1] : i \in Given(long)}

\* the essays that two raters scored, each one an unordered rater pair
PairedEssays(long) ==
    {e \in {long[i].essay_id : i \in Given(long)} :
        Cardinality({i \in Given(long) : long[i].essay_id = e}) = 2}

ScoreBy(long, e, r) ==
    long[CHOOSE i \in Given(long) : long[i].essay_id = e /\ long[i].rater_id = r].score[1]

\* the number of scores c that the raters of paired essays gave
PairedCount(long, c) ==
    Cardinality({i \in Given(long) :
                    long[i].essay_id \in PairedEssays(long) /\ long[i].score[1] = c})

RECURSIVE SumOfSet(_, _)
SumOfSet(f, S) ==
    IF S = {} THEN 0
    ELSE LET x == CHOOSE y \in S : TRUE
         IN  f[x] + SumOfSet(f, S \ {x})

\* twice the sum of (i - j)^2 over the rater pairs: every pair is entered as
\* (i, j) and as (j, i)
SquaredDistanceOfPairs(long) ==
    2 * SumOfSet([e \in PairedEssays(long) |->
                    (ScoreBy(long, e, "R1") - ScoreBy(long, e, "R2"))
                      * (ScoreBy(long, e, "R1") - ScoreBy(long, e, "R2"))],
                 PairedEssays(long))

\* the sum of (a - b)^2 weighted by the product of the marginal totals
SquaredDistanceOfMarginals(long) ==
    LET cats == ObservedCategories(long)
    IN  SumOfSet([ab \in cats \X cats |->
                    (ab[1] - ab[2]) * (ab[1] - ab[2])
                      * PairedCount(long, ab[1]) * PairedCount(long, ab[2])],
                 cats \X cats)

-----------------------------------------------------------------------------
(* C18: krippendorff_alpha_ordinal returns NaN when fewer than two         *)
(* distinct score categories are observed, when no rater pair exists, or   *)
(* when the expected disagreement De is zero; otherwise it returns         *)
(* 1 - Do/De, Do the coincidence-weighted mean of ((i-j)/(K-1))^2 over all *)
(* matrix cells and De the mean of the same distance weighted by the       *)
(* products of the marginal totals over the squared total, K the number    *)
(* of distinct observed categories.                                        *)
C18_AlphaDefinition ==
    pc = "returned" =>
        LET long == scores_df_long
            K == Cardinality(ObservedCategories(long))
            n == 2 * Cardinality(PairedEssays(long))
            O == SquaredDistanceOfPairs(long)
            D == SquaredDistanceOfMarginals(long)
        IN  IF K < 2 \/ n = 0 \/ D = 0
            THEN alpha = NaN
            ELSE LET cats == Categories(long)
                     Do == ObservedDisagreement(Coincidence(long), cats)
                     De == ExpectedDisagreement(Coincidence(long), cats)
                 IN  /\ Len(cats) = K
                     /\ Do = Rat(O, (K - 1) * (K - 1) * n)
                     /\ De = Rat(D, (K - 1) * (K - 1) * n * n)
                     /\ alpha # NaN
                     /\ alpha = RatSub(<<1, 1>>, RatDiv(Do, De))
                     /\ alpha[1] * D = alpha[2] * (D - n * O)

\* a call that returned a negative alpha for three observed categories, one
\* of them seen only in an essay that a single rater scored
C18_Witness ==
    /\ pc = "returned"
    /\ Cardinality(ObservedCategories(scores_df_long)) = 3
    /\ Cardinality(PairedEssays(scores_df_long)) = 2
    /\ \E c \in ObservedCategories(scores_df_long) : PairedCount(scores_df_long, c) = 0
    /\ alpha # NaN
    /\ alpha[1] < 0

-----------------------------------------------------------------------------
(* The raters' tables as the claims speak of them *)

MetricsDone == pc \in {"totals", "done"}

\* the essays both raters scored in dimension d
RatedByBoth(d) ==
    {p \in Ids(r1_csv) \cap Ids(r2_csv) : Present(r1_csv, p, d) /\ Present(r2_csv, p, d)}

\* the join of the two loaded tables
RaterJoin == Merge(r1, r2, R1_SUFFIX, R2_SUFFIX)

\* the argument the script passes to krippendorff_alpha_ordinal for d
LongDfOf(df, d) ==
    LongDf(ValidRows(df, d \o R1_SUFFIX, d \o R2_SUFFIX),
           d \o R1_SUFFIX, d \o R2_SUFFIX)

-----------------------------------------------------------------------------
(* C19: the coincidence matrix built for a dimension is symmetric and,     *)
(* with unique paper identifiers, receives exactly one unordered rater     *)
(* pair per valid paper, entered as both (i,j) and (j,i); so its total     *)
(* count is 2 x n_pairs of that dimension and its diagonal entries are     *)
(* even.                                                                   *)
C19_CoincidenceMatrix ==
    MetricsDone =>
        \A k \in 1..Len(metric_rows) :
            LET d == metric_rows[k].dimension
                long == LongDfOf(RaterJoin, d)
                cats == Categories(long)
                C == Coincidence(long)
                P == RatedByBoth(d)
                pairs(a, b) ==
                    Cardinality({p \in P : /\ Score(r1_csv, p, d) = a
                                           /\ Score(r2_csv, p, d) = b})
            IN  Len(cats) >= 2 =>
                  /\ \A a, b \in 1..Len(cats) :
                        /\ C[a][b] = C[b][a]
                        /\ C[a][b] = pairs(cats[a], cats[b]) + pairs(cats[b], cats[a])
                  /\ \A a \in 1..Len(cats) : C[a][a] % 2 = 0
                  /\ MatrixSum(C) = 2 * metric_rows[k].n_pairs
                  /\ metric_rows[k].n_pairs = Cardinality(P)

\* a dimension with three valid essays, two of them scored alike by both
\* raters and one scored 0 by one and 2 by the other
C19_Witness ==
    /\ MetricsDone
    /\ \E k \in 1..Len(metric_rows) :
          LET long == LongDfOf(RaterJoin, metric_rows[k].dimension)
              C == Coincidence(long)
          IN  /\ metric_rows[k].n_pairs = 3
              /\ Categories(long) = <<0, 2>>
              /\ C = <<<<4, 1>>, <<1, 0>>>>

-----------------------------------------------------------------------------
(* C11: comparing a table against itself yields, for every dimension with  *)
(* at least one non-missing score, exact agreement 100%, adjacent          *)
(* agreement 100% and mean absolute error 0, weighted kappa 1.0 and        *)
(* ordinal alpha 1 when at least two distinct score categories are         *)
(* observed in that dimension; every delta is 0 with error_type 'exact'    *)
(* and direction 'none'.                                                   *)
ScoredPapers(t, d) == {p \in Ids(t) : Present(t, p, d)}

ScoredDims(t) == {d \in DataCols(t) : ScoredPapers(t, d) # {}}

RowsFor(d) == {k \in 1..Len(metric_rows) : metric_rows[k].dimension = d}

C11_Identity ==
    (MetricsDone /\ r2_csv = r1_csv) =>
        LET t == StripUnnamed(r1_csv)
            ls == EvaluateLists(t, t.cols, r1_csv)
            records == analyze_llm_file(t, t.cols, 1, r1_csv).detailed
        IN  /\ \A d \in ScoredDims(r1_csv) :
                  /\ Cardinality(RowsFor(d)) = 1
                  /\ \A k \in RowsFor(d) :
                        /\ metric_rows[k].n_pairs = Cardinality(ScoredPapers(r1_csv, d))
                        /\ metric_rows[k].exact_pct = <<100, 1>>
                        /\ metric_rows[k].adjacent_pct = <<100, 1>>
                        /\ Cardinality(ScoresOf(r1_csv, ScoredPapers(r1_csv, d), d)) >= 2
                           => /\ metric_rows[k].kappa_w_quad = <<1, 1>>
                              /\ metric_rows[k].alpha_ordinal = <<1, 1>>
            /\ Len(ls.exact_list) = Cardinality(ScoredDims(r1_csv))
            /\ \A j \in 1..Len(ls.exact_list) :
                  /\ ls.exact_list[j] = <<100, 1>>
                  /\ ls.adjacent_list[j] = <<100, 1>>
                  /\ ls.mae_dim_list[j] = <<0, 1>>
            /\ \A j \in 1..Len(ls.kappa_list) : ls.kappa_list[j] = <<1, 1>>
            /\ Len(ls.kappa_list)
                 = Cardinality({d \in ScoredDims(r1_csv) :
                      Cardinality(ScoresOf(r1_csv, ScoredPapers(r1_csv, d), d)) >= 2})
            /\ Len(records)
                 = SumOfSet([d \in ScoredDims(r1_csv) |->
                               Cardinality(ScoredPapers(r1_csv, d))], ScoredDims(r1_csv))
            /\ \A i \in 1..Len(records) :
                  /\ records[i].delta = 0
                  /\ records[i].error_type = "exact"
                  /\ records[i].direction = "none"

\* a table compared against itself: clarity missing for one essay and with
\* two categories in the other two, grammar with three categories
C11_Witness ==
    /\ pc = "done"
    /\ r2_csv = r1_csv
    /\ Cardinality(ScoredPapers(r1_csv, "clarity")) = 2
    /\ Cardinality(ScoresOf(r1_csv, ScoredPapers(r1_csv, "grammar"), "grammar")) = 3
    /\ Len(metric_rows) = 2
    /\ \A k \in 1..Len(metric_rows) :
          /\ metric_rows[k].kappa_w_quad = <<1, 1>>
          /\ metric_rows[k].alpha_ordinal = <<1, 1>>

-----------------------------------------------------------------------------
(* C13: swapping the two raters' tables leaves, for every common           *)
(* dimension, n_pairs, exact_%, adjacent_% and the ordinal alpha (and the  *)
(* weighted kappa) unchanged.                                              *)
SwappedMetricRows ==
    MetricRows(Merge(r2, r1, R1_SUFFIX, R2_SUFFIX), CommonDims(r2, r1))

C13_RaterSwapSymmetry ==
    MetricsDone =>
        LET sw == SwappedMetricRows
        IN  /\ Len(sw) = Len(metric_rows)
            /\ \A k \in 1..Len(sw) :
                  /\ sw[k].dimension = metric_rows[k].dimension
                  /\ sw[k].n_pairs = metric_rows[k].n_pairs
                  /\ sw[k].exact_pct = metric_rows[k].exact_pct
                  /\ sw[k].adjacent_pct = metric_rows[k].adjacent_pct
                  /\ sw[k].alpha_ordinal = metric_rows[k].alpha_ordinal
                  /\ sw[k].kappa_w_quad = metric_rows[k].kappa_w_quad

\* two raters whose clarity scores of three essays have different marginals
\* and a kappa and an alpha that are neither undefined nor 0 nor 1
C13_Witness ==
    /\ MetricsDone
    /\ \E k \in 1..Len(metric_rows) :
          LET d == metric_rows[k].dimension
              P == RatedByBoth(d)
          IN  /\ metric_rows[k].n_pairs = 3
              /\ ScoresOf(r1_csv, P, d) # ScoresOf(r2_csv, P, d)
              /\ metric_rows[k].kappa_w_quad \notin {NaN, <<0, 1>>, <<1, 1>>}
              /\ metric_rows[k].alpha_ordinal \notin {NaN, <<0, 1>>, <<1, 1>>}
              /\ metric_rows[k].kappa_w_quad # metric_rows[k].alpha_ordinal

-----------------------------------------------------------------------------
(* C16: papers whose identifier is absent from either table are excluded   *)
(* from all statistics: every per-dimension metric and every total is      *)
(* computed only over identifiers present in both tables (inner-join       *)
(* semantics), and their absence is not an error.                          *)
CommonEssays ==
    LET kept == SelectSeq(r1_csv.rows, LAMBDA x : x.id \in Ids(r2_csv))
    IN  List([i \in 1..Len(kept) |-> kept[i].id])

\* the total of table t for paper p over the dimensions D
TotalOver(t, p, D) == SumOver(t, p, {d \in D : Present(t, p, d)})

-----------------------------------------------------------------------------
(* C21: the per-dimension table has exactly one row for each common        *)
(* dimension that has at least one valid pair, with n_pairs equal to that  *)
(* dimension's number of valid pairs; a dimension with zero valid pairs    *)
(* produces no row, does not abort the run, and does not change the rows   *)
(* of the other dimensions.                                                *)

\* the dimensions both raters' files have a column for, in sorted order
SharedDims == Sorted(DataCols(r1_csv) \cap DataCols(r2_csv))

ZeroPairDims == {d \in Range(SharedDims) : RatedByBoth(d) = {}}

\* table t without the columns of D
WithoutColumns(t, D) ==
    LET keep == SelectSeq(t.cols, LAMBDA c : c \notin D)
    IN  [t EXCEPT !.cols = keep,
                  !.rows = [i \in 1..Len(t.rows) |->
                              [id   |-> t.rows[i].id,
                               cell |-> [c \in Range(keep) |-> t.rows[i].cell[c]]]]]

\* the rows the script computes from the files without the columns of D
MetricRowsWithout(D) ==
    LET a == LoadRater(WithoutColumns(r1_csv, D))
        b == LoadRater(WithoutColumns(r2_csv, D))
    IN  MetricRows(Merge(a, b, R1_SUFFIX, R2_SUFFIX), CommonDims(a, b))

C21_PerDimensionRows ==
    /\ pc = "crashed" => (r1_csv.idname # RATER_ID_COL \/ r2_csv.idname # RATER_ID_COL)
    /\ MetricsDone =>
          LET kept == SelectSeq(SharedDims, LAMBDA d : RatedByBoth(d) # {})
          IN  /\ Len(metric_rows) = Len(kept)
              /\ \A k \in 1..Len(kept) :
                    /\ metric_rows[k].dimension = kept[k]
                    /\ metric_rows[k].n_pairs = Cardinality(RatedByBoth(kept[k]))
              /\ ZeroPairDims # {} => metric_rows = MetricRowsWithout(ZeroPairDims)
    /\ pc = "done" => out_metrics.rows = metric_rows

\* both raters scored grammar, but never the same essay; clarity has pairs
C21_Witness ==
    /\ pc = "done"
    /\ \E d \in ZeroPairDims :
          /\ \E p \in Ids(r1_csv) : Present(r1_csv, p, d)
          /\ \E p \in Ids(r2_csv) : Present(r2_csv, p, d)
    /\ Len(SharedDims) = 2
    /\ Len(out_metrics.rows) = 1
    /\ out_metrics.rows[1].n_pairs = 2

-----------------------------------------------------------------------------
(* C22: per-file independence: the summary row and detailed records        *)
(* produced for an automated-source file depend only on that file and the  *)
(* human table; they are identical whatever other files are in the batch   *)
(* and whatever order the files are processed in, and analysing a file     *)
(* leaves the loaded human table and dimension list unchanged.  (The file  *)
(* name, here the file's position in the folder, is the one field of a     *)
(* row that tells two files of the same content apart.)                    *)

Unnamed(rec) == [rec EXCEPT !.file = 0]

UnnamedAll(recs) == [i \in 1..Len(recs) |-> Unnamed(recs[i])]

\* what a run over the human file and this one file alone appends
AloneResult(file) ==
    analyze_llm_file(StripUnnamed(human_csv), DimsOf(StripUnnamed(human_csv)), 0, file)

\* the rows of every analysed file are those of the file analysed alone, so
\* two files of the same content have the same rows wherever they stand
C22_RowsOfFileAlone ==
    \A k \in Analysed :
        /\ Unnamed(all_summaries[k]) = AloneResult(gpt_csvs[k]).summary
        /\ UnnamedAll(all_detailed[k]) = AloneResult(gpt_csvs[k]).detailed
        /\ \A j \in Analysed :
              gpt_csvs[j] = gpt_csvs[k] =>
                  /\ Unnamed(all_summaries[j]) = Unnamed(all_summaries[k])
                  /\ UnnamedAll(all_detailed[j]) = UnnamedAll(all_detailed[k])

\* a step of the loop changes neither the human table nor the dimension
\* list nor what the earlier files produced
C22_StepKeepsInputs ==
    pc = "loop" =>
        /\ human' = human
        /\ dims' = dims
        /\ human_csv' = human_csv
        /\ gpt_csvs' = gpt_csvs
        /\ Len(all_summaries') >= Len(all_summaries)
        /\ \A k \in 1..Len(all_summaries) :
              /\ all_summaries'[k] = all_summaries[k]
              /\ all_detailed'[k] = all_detailed[k]

C22_PerFileIndependence == [](C22_RowsOfFileAlone) /\ [][C22_StepKeepsInputs]_vars

\* a batch of three: the first and the last file have the same content and
\* one comparison each, the file between them has none
C22_Witness ==
    /\ pc = "done"
    /\ Len(all_summaries) = 3
    /\ gpt_csvs[1] = gpt_csvs[3]
    /\ gpt_csvs[2] # gpt_csvs[1]
    /\ all_summaries[1].n_comparisons = 1
    /\ all_summaries[2].n_comparisons = 0
    /\ all_summaries[3].n_comparisons = 1

-----------------------------------------------------------------------------
(* C23: each output file of a batch run is written exactly once, and only  *)
(* after every automated-source file of the batch has been analysed and    *)
(* its result collected in memory: in no execution does a write to an      *)
(* output path precede the analysis of some file of the batch.             *)

\* a written file holds the results of every file of the folder
C23_WrittenAfterAll ==
    (out_summary.written \/ out_detailed.written) =>
        /\ out_summary.written /\ out_detailed.written
        /\ pc = "done"
        /\ Len(all_summaries) = Len(gpt_csvs)
        /\ Len(all_detailed) = Len(gpt_csvs)
        /\ Len(out_summary.rows) = Len(gpt_csvs)

\* a step writes an output file only when the loop is over and the file has
\* not been written, and a written file is never written again
C23_WriteStep ==
    /\ out_summary' # out_summary =>
          ~out_summary.written /\ out_summary'.written /\ idx > Len(gpt_csvs)
    /\ out_detailed' # out_detailed =>
          ~out_detailed.written /\ out_detailed'.written /\ idx > Len(gpt_csvs)
    /\ pc = "done" => UNCHANGED <<out_summary, out_detailed>>

\* a run that ends without an exception has written both files
C23_DoneHasWritten == pc = "done" => out_summary.written /\ out_detailed.written

C23_WrittenOnceAtEnd ==
    [](C23_WrittenAfterAll /\ C23_DoneHasWritten) /\ [][C23_WriteStep]_vars

\* both files written after a batch of three files
C23_Witness ==
    /\ pc = "done"
    /\ Len(gpt_csvs) = 3
    /\ out_summary.written
    /\ out_detailed.written
    /\ Len(out_summary.rows) = 3
    /\ Len(out_detailed.rows) >= 2

-----------------------------------------------------------------------------
(* C24: in a compare_results summary row, n_dimensions_evaluated equals    *)
(* the number of dimensions whose kappa was defined, while exact_mean_%,   *)
(* adjacent_mean_% and mae_dim_mean average over every dimension with at   *)
(* least one valid pair; so n_dimensions_evaluated is at most the number   *)
(* of dimensions averaged in exact_mean_% and is strictly smaller whenever *)
(* some kappa is undefined, and when no kappa is defined kappa_mean and    *)
(* kappa_median are undefined while the row is still emitted.              *)

\* the mean of f over the dimensions ds, NaN when there is none
MeanOverDims(f, ds) ==
    IF ds = <<>> THEN NaN
    ELSE RatDiv(RatSum([j \in 1..Len(ds) |-> f[ds[j]]]), <<Len(ds), 1>>)

C24_EvaluatedDimensions ==
    /\ \A k \in Evaluated :
          LET g == gpt_csvs[k]
              paired == DimsWithPairs(human, g)
              defined == SelectSeq(paired, LAMBDA d : ~SingleCategory(human, g, d))
              P(d) == ValidPapers(human, g, d)
              diff(d, p) == Abs(Score(g, p, d) - Score(human, p, d))
              exact == [d \in Range(paired) |->
                          Rat(100 * Cardinality({p \in P(d) : diff(d, p) = 0}),
                              Cardinality(P(d)))]
              adjacent == [d \in Range(paired) |->
                             Rat(100 * Cardinality({p \in P(d) : diff(d, p) <= 1}),
                                 Cardinality(P(d)))]
              mae == [d \in Range(paired) |->
                        Rat(SumOfSet([p \in P(d) |-> diff(d, p)], P(d)),
                            Cardinality(P(d)))]
          IN  /\ results[k].n_dimensions_evaluated = Len(defined)
              /\ results[k].exact_mean_pct = MeanOverDims(exact, paired)
              /\ results[k].adjacent_mean_pct = MeanOverDims(adjacent, paired)
              /\ results[k].mae_dim_mean = MeanOverDims(mae, paired)
              /\ results[k].n_dimensions_evaluated <= Len(paired)
              /\ Len(defined) < Len(paired)
                 => results[k].n_dimensions_evaluated < Len(dim_lists[k].exact_list)
              /\ defined = <<>>
                 => results[k].kappa_mean = NaN /\ results[k].kappa_median = NaN
    /\ pc = "done" => out_results.rows = results /\ Len(results) = Len(gpt_csvs)

\* grammar has no valid pair and clarity is scored 1 for every paper by both
\* sources: no kappa is defined, the other means are those of clarity, and
\* the row is written
C24_Witness ==
    /\ pc = "done"
    /\ ValidPapers(human, gpt_csvs[1], "grammar") = {}
    /\ SingleCategory(human, gpt_csvs[1], "clarity")
    /\ out_results.rows[1].n_dimensions_evaluated = 0
    /\ out_results.rows[1].kappa_mean = NaN
    /\ out_results.rows[1].kappa_median = NaN
    /\ out_results.rows[1].exact_mean_pct = <<100, 1>>
    /\ out_results.rows[1].mae_dim_mean = <<0, 1>>

-----------------------------------------------------------------------------
(* C29: extract_json_from_model_output tries its heuristics in a fixed     *)
(* order and the first success wins: (1) the first "[" .. last "]" span    *)
(* parsed as a JSON list, (2) only when no such span was found, splitting  *)
(* the text into top-level "{...}" objects, all of which must parse, (3)   *)
(* parsing the whole text, wrapping a single object in a list; it either   *)
(* returns a list or raises ValueError, and it raises ValueError on empty  *)
(* or whitespace-only text.                                                *)

Positions(s, c) == {i \in 1..Len(s) : s[i] = c}

\* "{" minus "}" among the first i lexemes of s
Balance(s, i) ==
    Cardinality(Positions(s, "{") \cap 1..i) - Cardinality(Positions(s, "}") \cap 1..i)

\* the top-level objects of s: each starts at a "{" met outside every object
\* and ends where its braces are balanced again
TopLevelObjects(s) ==
    LET ends(i) == {j \in (i + 1)..Len(s) : Balance(s, j) = 0}
        starts == {i \in Positions(s, "{") : Balance(s, i - 1) = 0 /\ ends(i) # {}}
        order == SortInts(starts)
    IN  [k \in 1..Len(order) |-> SubSeq(s, order[k], MinOf(ends(order[k])))]

\* the text between the fences, if any
Cleaned(s) == RemoveFences(Strip(s))

HasArraySpan(s) ==
    /\ Positions(s, "[") # {}
    /\ \E j \in Positions(s, "]") : j > MinOf(Positions(s, "["))

ArraySpan(s) == SubSeq(s, MinOf(Positions(s, "[")), MaxOf(Positions(s, "]")))

C29_HeuristicOrder ==
    pc = "returned" =>
        LET s == Cleaned(text)
            objs == TopLevelObjects(s)
            whole == json_loads(s)
            first == HasArraySpan(s) /\ json_loads(ArraySpan(s)).ok
            second == /\ ~HasArraySpan(s)
                      /\ objs # <<>>
                      /\ \A k \in 1..Len(objs) : json_loads(objs[k]).ok
        IN  /\ \/ extracted.returned /\ extracted.data.t = "list"
               \/ ~extracted.returned /\ extracted.raised = "ValueError"
            /\ Strip(text) = <<>> => extracted.raised = "ValueError"
            /\ Strip(text) # <<>> =>
                  IF first
                  THEN extracted = Returns(json_loads(ArraySpan(s)).val)
                  ELSE IF second
                  THEN extracted = Returns(JList([k \in 1..Len(objs) |->
                                                    json_loads(objs[k]).val]))
                  ELSE IF whole.ok /\ whole.val.t = "list"
                  THEN extracted = Returns(whole.val)
                  ELSE IF whole.ok /\ whole.val.t = "dict"
                  THEN extracted = Returns(JList(<<whole.val>>))
                  ELSE extracted = Raises("ValueError")

\* the text is one object that holds an array: the array is what is returned
C29_Witness ==
    /\ pc = "returned"
    /\ json_loads(text).ok
    /\ json_loads(text).val.t = "dict"
    /\ extracted = Returns(JList(<<JAtom>>))

-----------------------------------------------------------------------------
(* C30: parse_sections_by_number maps Roman-numeral headings I, II, III,   *)
(* IV to the chapters Problem, Teorijske osnove, Resenje, Rezultati; when  *)
(* several sections carry the same numeral it keeps the one with the most  *)
(* words; text with no such heading yields the whole text under "Problem"  *)
(* and empty text yields an empty mapping; every key it returns is a       *)
(* chapter that evaluate_sections evaluates and for which RULES defines    *)
(* chapter rules.                                                          *)

ChapterOfNumeral(n) ==
    CASE n = "I" -> "Problem"
      [] n = "II" -> "Teorijske osnove"
      [] n = "III" -> "Resenje"
      [] n = "IV" -> "Rezultati"

\* the sections of the text that carry numeral n, in the order of the text
SectionsOf(txt, n) ==
    LET cs == SelectSeq(Candidates(txt), LAMBDA c : c.marker = n)
    IN  [k \in 1..Len(cs) |-> cs[k].body]

NumeralsOf(txt) == {n \in {"I", "II", "III", "IV"} : SectionsOf(txt, n) # <<>>}

C30_Sections ==
    pc = "returned" =>
        /\ text = <<>> => DOMAIN sections = {}
        /\ (text # <<>> /\ NumeralsOf(text) = {}) =>
              /\ DOMAIN sections = {"Problem"}
              /\ sections["Problem"] = Strip(text)
        /\ NumeralsOf(text) # {} =>
              /\ DOMAIN sections = {ChapterOfNumeral(n) : n \in NumeralsOf(text)}
              /\ \A n \in NumeralsOf(text) :
                    LET bodies == SectionsOf(text, n)
                        kept == sections[ChapterOfNumeral(n)]
                    IN  /\ \E k \in 1..Len(bodies) : bodies[k] = kept
                        /\ \A k \in 1..Len(bodies) : WordCount(bodies[k]) <= WordCount(kept)
                        /\ kept # <<>>
        /\ DOMAIN sections \subseteq Range(chapter_order)
        /\ DOMAIN sections \subseteq RULES_chapters

\* two sections numbered I, the second one with more words, and a section
\* numbered II
C30_Witness ==
    /\ pc = "returned"
    /\ Len(SectionsOf(text, "I")) = 2
    /\ WordCount(SectionsOf(text, "I")[1]) < WordCount(SectionsOf(text, "I")[2])
    /\ DOMAIN sections = {"Problem", "Teorijske osnove"}
    /\ sections["Problem"] = SectionsOf(text, "I")[2]
    /\ WordCount(sections["Problem"]) = 3

-----------------------------------------------------------------------------
(* C25: call_model ends after at most max_retries attempts *)

\* attempt k failed: the API raised, or its content was empty
FailedAttempt(k) == responses[k].raises # "none" \/ responses[k].content = <<>>

\* the failure of attempt k as the caller would see it
FailureOf(k) ==
    IF responses[k].raises # "none" THEN responses[k].raises ELSE "ValueError"

\* with max_retries >= 1: never more than max_retries attempts, each made
\* only after the ones before it failed; a return gives the text of the first
\* attempt that did not fail; a raise comes after max_retries failures and is
\* the last of them; failed attempt k < max_retries is followed by a sleep of
\* backoff * 2^(k-1), the final failed attempt by none
C25_AttemptsAndSleeps ==
    max_retries >= 1 =>
        /\ attempt = Len(responses)
        /\ attempt <= max_retries
        /\ \A k \in 1..(attempt - 1) : FailedAttempt(k)
        /\ pc = "call" =>
              /\ reply = NoReply
              /\ attempt < max_retries
              /\ \A k \in 1..attempt : FailedAttempt(k)
        /\ pc = "returned" =>
              /\ ~FailedAttempt(attempt)
              /\ reply = [returned |-> TRUE, raised |-> "none",
                          text |-> responses[attempt].content]
        /\ pc = "raised" =>
              /\ attempt = max_retries
              /\ FailedAttempt(attempt)
              /\ reply = [returned |-> FALSE, raised |-> FailureOf(attempt),
                          text |-> <<>>]
        /\ LET slept == {k \in 1..attempt : FailedAttempt(k) /\ k < max_retries}
           IN  /\ DOMAIN sleeps = slept
               /\ \A k \in slept : sleeps[k] = backoff * 2^(k - 1)

C25_Ends == pc \in {"returned", "raised"}

\* C25: call_model with max_retries >= 1 always terminates after at most
\* max_retries API attempts; it returns the text of the first attempt with a
\* non-empty response, re-raises the last failure when max_retries attempts
\* all fail, sleeps backoff * 2^(k-1) after failed attempt k < max_retries
\* and does not sleep after the final failed attempt
C25_RetriesAndTermination == [](C25_AttemptsAndSleeps) /\ <>(C25_Ends)

\* three attempts failed, the last with an empty response: two sleeps, of
\* backoff and twice backoff, and the ValueError is raised
C25_Witness ==
    /\ pc = "raised"
    /\ max_retries = 3
    /\ backoff = 3
    /\ responses[1].raises = "RateLimitError"
    /\ responses[3] = [raises |-> "none", content |-> <<>>]
    /\ sleeps = <<3, 6>>
    /\ reply.raised = "ValueError"

-----------------------------------------------------------------------------
(* C28: evaluate_sections calls in a fixed order and outlives failures *)

\* the chapters in the order the claim gives them
C28_Order == <<"Problem", "Teorijske osnove", "Resenje", "Rezultati">>

\* what evaluate_sections is to attempt on a text whose chapters are parsed:
\* the whole text first, then every chapter with content, in order
C28_Attempts(parsed) ==
    LET with == SelectSeq(C28_Order, LAMBDA c : c \in DOMAIN parsed /\ parsed[c] # <<>>)
    IN  <<[what |-> "global", text |-> text]>> \o
        List([k \in 1..Len(with) |-> [what |-> with[k], text |-> parsed[with[k]]]])

\* the attempt a call of the model makes, read off its prompt
C28_AttemptOf(call) ==
    [what |-> IF call.rules.global THEN "global"
              ELSE CHOOSE c \in call.rules.chapters : TRUE,
     text |-> call.text]

\* the results of the calls made so far
C28_Results == List([k \in 1..Len(calls) |-> evaluate_markdown(api[k])])

\* the items the calls contributed: those of the results, none for a failure
RECURSIVE C28_Concat(_)
C28_Concat(rs) ==
    IF rs = <<>> THEN <<>>
    ELSE (IF Head(rs).returned THEN Head(rs).data.items ELSE <<>>) \o C28_Concat(Tail(rs))

\* the logged failures, in order
C28_Logged == SelectSeq(log, LAMBDA l : l.level = "exception")

-----------------------------------------------------------------------------
(* C26: process_all_pdfs keeps the failure of one PDF to that PDF *)

\* the files of the folder with the suffix .pdf in any case, by rising path
C26_PdfRank == [p \in {"B.PDF", "a.pdf", "b.pdf"} |->
                   IF p = "B.PDF" THEN 1 ELSE IF p = "a.pdf" THEN 2 ELSE 3]

C26_Rising(ps) ==
    \A i, j \in 1..Len(ps) : i < j => C26_PdfRank[ps[i]] < C26_PdfRank[ps[j]]

\* the PDFs the loop is done with
C26_Finished == 1..(pdf_idx - 1)

\* the evaluation of the k-th PDF raised: outside a dry run and outside the
\* sections mode, whose evaluate_sections catches every failure itself, the
\* PDF has markdown and its one call of evaluate_markdown raised
C26_EvaluationRaised(k) ==
    /\ ~dry_run
    /\ mode # "sections"
    /\ markdowns[k] # <<>>
    /\ ~evaluate_markdown(
           api[Cardinality({i \in 1..k : markdowns[i] # <<>>})]).returned

C26_Dropped(k) == markdowns[k] = <<>> \/ C26_EvaluationRaised(k)

C26_RowsOf(p) == {i \in 1..Len(all_rows) : all_rows[i]["paper_name"] = p}

\* C26: a PDF without markdown or whose evaluation raises contributes no row
\* and is logged, every other PDF of the folder is still processed, in sorted
\* path order, and the CSV is written once, after the loop, and only when at
\* least one row was collected
C26_FailureIsolation ==
    (input_folder.exists /\ pc # "start") =>
        /\ Range(pdf_files) = Range(input_folder.entries) \cap DOMAIN C26_PdfRank
        /\ C26_Rising(pdf_files)
        /\ C26_Rising([i \in 1..Len(all_rows) |-> all_rows[i]["paper_name"]])
        /\ \A k \in C26_Finished :
              IF C26_Dropped(k)
              THEN /\ C26_RowsOf(pdf_files[k]) = {}
                   /\ \E i \in 1..Len(log) :
                         /\ log[i].what = pdf_files[k]
                         /\ log[i].exc # "item"
              ELSE Cardinality(C26_RowsOf(pdf_files[k])) = 1
        /\ pc = "done" => pdf_idx = IF pdf_files = <<>> THEN 0 ELSE Len(pdf_files) + 1
        /\ Len(out_csv.writes) <= 1
        /\ out_csv.writes # <<>> =>
              /\ pc = "done"
              /\ all_rows # <<>>
              /\ out_csv.writes[1].rows = all_rows
        /\ (pc = "done" /\ all_rows # <<>>) => out_csv.writes # <<>>

\* two PDFs, listed against their order: the evaluation of the first raised,
\* the second was still evaluated and its row is the one row of the CSV
C26_Witness ==
    /\ pc = "done"
    /\ mode = "full"
    /\ ~dry_run
    /\ input_folder.entries = <<"a.pdf", "B.PDF">>
    /\ pdf_files = <<"B.PDF", "a.pdf">>
    /\ C26_EvaluationRaised(1)
    /\ ~C26_Dropped(2)
    /\ Len(all_rows) = 1
    /\ all_rows[1]["paper_name"] = "a.pdf"
    /\ Len(out_csv.writes) = 1

-----------------------------------------------------------------------------
(* C27: a dry run never calls the model *)

\* the PDFs seen so far whose parsing gave markdown, in order
C27_Parsed ==
    SelectSeq([k \in 1..Len(markdowns) |-> k], LAMBDA k : markdowns[k] # <<>>)

\* C27: with dry_run set, process_all_pdfs never calls the model, in either
\* mode, and each PDF whose parsing yields non-empty markdown contributes
\* exactly one row holding only paper_name and the note
\* 'dry-run, not evaluated'
C27_DryRun ==
    dry_run =>
        /\ calls = <<>>
        /\ api = <<>>
        /\ pc \notin {"global", "parse", "chapters", "returned"}
        /\ Len(all_rows) = Len(C27_Parsed)
        /\ \A i \in 1..Len(all_rows) :
              /\ DOMAIN all_rows[i] = {"paper_name", "note"}
              /\ all_rows[i]["paper_name"] = pdf_files[C27_Parsed[i]]
              /\ all_rows[i]["note"] = "dry-run, not evaluated"

\* a dry run in the sections mode over two PDFs, the first without markdown:
\* no call of the model, and the one row is the second PDF's
C27_Witness ==
    /\ dry_run
    /\ mode = "sections"
    /\ pc = "done"
    /\ markdowns = <<<<>>, <<"w", "\n">>>>
    /\ calls = <<>>
    /\ Len(all_rows) = 1
    /\ all_rows[1]["paper_name"] = pdf_files[2]
    /\ Len(out_csv.writes) = 1

====
